---- MODULE Spec2Model ----
(***************************************************************************)
(* Trade ledger of stockanalyzer: the useTradeTracking hook                *)
(* (src/hooks/use-trade-tracking.ts), the blob it keeps in localStorage    *)
(* and the handlers of the OptionsAnalysis and TradeResults views that     *)
(* call it.                                                                *)
(*                                                                         *)
(* Optional values (entryPrice?, currentPrice?, pnl?, closedAt?, action?)  *)
(* are sequences of length at most one: <<>> is undefined, <<v>> is v.     *)
(* Prices are integers; a quotient (pnlPercentage, successRate) is an      *)
(* exact fraction in lowest terms, so IEEE rounding is not modelled.       *)
(***************************************************************************)
EXTENDS Integers, Sequences, FiniteSets, TLC

VARIABLE storage   \* localStorage[STORAGE_KEY]: NoBlob or <<the JSON array written last>>
VARIABLE trades    \* useState<TrackedTrade[]> of the mounted hook instance
VARIABLE loaded    \* the load effect of the mounted instance has run
VARIABLE now       \* reading of the clock behind Date.now() and new Date()
VARIABLE last      \* the last call made on the hook, or "threw" when it raised
VARIABLE view      \* App.currentView, or "hook" when the hook is driven directly
VARIABLE recs      \* OptionsAnalysis: the symbols with an actionable recommendation on screen
VARIABLE calls     \* calls made on the hook so far, when it is driven directly
VARIABLE conts     \* async handlers suspended at an await, with what they closed over
VARIABLE returned  \* what the last query returned
VARIABLE mtf       \* the getMultiTimeframeData call in progress: its position and locals
VARIABLE tz        \* the time zone of the browser, as an offset of the local date
VARIABLE args      \* the arguments of the function called last, when one is called directly
VARIABLE recommendations \* OptionsAnalysis: useState<OptionsRecommendation[]>
VARIABLE flow      \* the analyzeSymbol call in progress: its position and locals
VARIABLE config    \* the build: which version of the view, the oracle key, the retry arguments
VARIABLE monitor   \* the priceMonitor singleton, the host's timers and the closures it made
VARIABLE results   \* the TradeResults view: "never" shown, "mounted" or "unmounted"
VARIABLE batch     \* the locals and the flags of analyzeAllSymbols

appVars == <<view, recs, conts>>

\* the state of the services (data pipeline, analysis flow, price poller)
svcVars == <<mtf, tz, args, recommendations, flow, config, monitor, results, batch>>

\* the state of the ledger and of the views
ledgerVars == <<storage, trades, loaded, now, last, calls, returned, view, recs, conts>>

vars == <<storage, trades, loaded, now, last, calls, returned, view, recs, conts, svcVars>>

----------------------------------------------------------------------------
(* Bounds *)

MaxCalls == 3       \* calls made on the hook when it is driven directly
MaxTrades == 2      \* trades confirmed through the views
MaxRepeats == 3     \* trades confirmed through the views by a user tracking one symbol
MaxClock == 1       \* clock readings are 0..MaxClock
MaxHistory == 3     \* trades of a collection handed to a query
MaxConts == 1       \* handlers suspended at an await at one time
MaxBars == 2        \* bars of a secondary payload
StaleDays == 14     \* consecutive days from which now is drawn for isDataStale

Symbols == {"A", "B"}
HookSymbols == {"A"}
Prices == {105}
EntryPrices == {0, 2}
EntryTexts == {"", "0", "2"}

----------------------------------------------------------------------------
(* Optional values and fractions *)

Undef == <<>>
Some(v) == <<v>>
IsDef(x) == x # <<>>
Val(x) == x[1]
Opt(S) == {Undef} \cup {Some(v) : v \in S}

Max(a, b) == IF a >= b THEN a ELSE b
Abs(a) == IF a < 0 THEN -a ELSE a

RECURSIVE GCD(_, _)
GCD(a, b) == IF b = 0 THEN a ELSE GCD(b, a % b)

\* the rational n/d (d > 0) in lowest terms
Frac(n, d) ==
    LET g == GCD(Abs(n), d)
    IN  IF n = 0 THEN [num |-> 0, den |-> 1] ELSE [num |-> n \div g, den |-> d \div g]

Whole(n) == [num |-> n, den |-> 1]

----------------------------------------------------------------------------
(* TrackedTrade *)

CallAction == [optionType |-> "call", strikePrice |-> 100]
PutAction == [optionType |-> "put", strikePrice |-> 100]

CallRec == [recommendationType |-> "Call Option Recommended", action |-> Some(CallAction)]
PutRec == [recommendationType |-> "Put Option Recommended", action |-> Some(PutAction)]
NoActionRec == [recommendationType |-> "No Action Recommended", action |-> Undef]

Recommendations == {CallRec, PutRec, NoActionRec}

\* `${symbol}-${Date.now()}`
MakeId(symbol, t) == <<symbol, t>>

NoBlob == <<>>

Truthy(x) == IsDef(x) /\ Val(x) # 0

Rank(status) == CASE status = "pending" -> 0 [] status = "confirmed" -> 1 [] status = "closed" -> 2

----------------------------------------------------------------------------
(* JSON.stringify / JSON.parse of the collection.  A JSON object is a     *)
(* function on the keys that are present: JSON.stringify drops a key      *)
(* whose value is undefined and writes a Date as its ISO string.          *)

OptionalKeys == {"entryPrice", "currentPrice", "pnl", "pnlPercentage", "closedAt"}
RequiredKeys == {"id", "symbol", "recommendation", "confirmedAt", "status"}

IsoString(t) == [iso |-> t]
NewDate(isoString) == isoString.iso

RecToJson(rec) ==
    IF IsDef(rec.action)
    THEN [recommendationType |-> rec.recommendationType, action |-> Val(rec.action)]
    ELSE [recommendationType |-> rec.recommendationType]

RecFromJson(obj) ==
    [recommendationType |-> obj.recommendationType,
     action |-> IF "action" \in DOMAIN obj THEN Some(obj.action) ELSE Undef]

TradeToJson(trade) ==
    LET keys == RequiredKeys \cup {k \in OptionalKeys : IsDef(trade[k])}
    IN  [k \in keys |->
            CASE k = "confirmedAt" -> IsoString(trade.confirmedAt)
              [] k = "closedAt" -> IsoString(Val(trade.closedAt))
              [] k = "recommendation" -> RecToJson(trade.recommendation)
              [] k \in OptionalKeys \ {"closedAt"} -> Val(trade[k])
              [] OTHER -> trade[k]]

JSONstringify(ts) == [i \in DOMAIN ts |-> TradeToJson(ts[i])]

Field(obj, k) == IF k \in DOMAIN obj THEN Some(obj[k]) ELSE Undef

\* a load that leaves closedAt out
TradeFromJson_NoClosedAt(obj) ==
    [id |-> obj.id,
     symbol |-> obj.symbol,
     recommendation |-> RecFromJson(obj.recommendation),
     confirmedAt |-> NewDate(obj.confirmedAt),
     entryPrice |-> Field(obj, "entryPrice"),
     currentPrice |-> Field(obj, "currentPrice"),
     status |-> obj.status,
     pnl |-> Field(obj, "pnl"),
     pnlPercentage |-> Field(obj, "pnlPercentage"),
     closedAt |-> Undef]

\* parsedTrades.map(trade => ({...trade, confirmedAt: new Date(..), closedAt: ..}))
TradeFromJson(obj) ==
    [id |-> obj.id,
     symbol |-> obj.symbol,
     recommendation |-> RecFromJson(obj.recommendation),
     confirmedAt |-> NewDate(obj.confirmedAt),
     entryPrice |-> Field(obj, "entryPrice"),
     currentPrice |-> Field(obj, "currentPrice"),
     status |-> obj.status,
     pnl |-> Field(obj, "pnl"),
     pnlPercentage |-> Field(obj, "pnlPercentage"),
     closedAt |-> IF "closedAt" \in DOMAIN obj THEN Some(NewDate(obj.closedAt)) ELSE Undef]

LoadTrades(blob) == [i \in DOMAIN blob |-> TradeFromJson(blob[i])]

----------------------------------------------------------------------------
(* The ledger operations, as functions of the collection they close over *)

NewTrade(symbol, recommendation, entryPrice, t) ==
    [id |-> MakeId(symbol, t),
     symbol |-> symbol,
     recommendation |-> recommendation,
     confirmedAt |-> t,
     entryPrice |-> entryPrice,
     currentPrice |-> Undef,
     status |-> IF Truthy(entryPrice) THEN "confirmed" ELSE "pending",
     pnl |-> Undef,
     pnlPercentage |-> Undef,
     closedAt |-> Undef]

confirmTrade(ts, symbol, recommendation, entryPrice, t) ==
    Append(ts, NewTrade(symbol, recommendation, entryPrice, t))

ComputePnl(action, currentPrice, entryPrice) ==
    IF action.optionType = "call" THEN Max(0, currentPrice - action.strikePrice) - entryPrice
    ELSE IF action.optionType = "put" THEN Max(0, action.strikePrice - currentPrice) - entryPrice
    ELSE 0

UpdatedTrade(trade, currentPrice, entryPrice) ==
    LET status == IF IsDef(entryPrice) THEN "confirmed" ELSE trade.status
        entry == IF IsDef(entryPrice) THEN entryPrice ELSE trade.entryPrice
        base == [trade EXCEPT !.currentPrice = Some(currentPrice),
                              !.status = status,
                              !.entryPrice = entry]
    IN  IF Truthy(entry) /\ IsDef(trade.recommendation.action)
        THEN LET pnl == ComputePnl(Val(trade.recommendation.action), currentPrice, Val(entry))
             IN  [base EXCEPT !.pnl = Some(pnl),
                              !.pnlPercentage =
                                  Some(IF Val(entry) > 0 THEN Frac(pnl * 100, Val(entry))
                                       ELSE Whole(0))]
        ELSE base

updateTradePrice(ts, tradeId, currentPrice, entryPrice) ==
    [i \in DOMAIN ts |->
        IF ts[i].id = tradeId THEN UpdatedTrade(ts[i], currentPrice, entryPrice) ELSE ts[i]]

closeTrade(ts, tradeId, t) ==
    [i \in DOMAIN ts |->
        IF ts[i].id = tradeId
        THEN [ts[i] EXCEPT !.status = "closed", !.closedAt = Some(t)]
        ELSE ts[i]]

\* counts a trade that only broke even
IsSuccessful_NotNegative(trade) == IsDef(trade.pnl) /\ Val(trade.pnl) >= 0

IsSuccessful(trade) == IsDef(trade.pnl) /\ Val(trade.pnl) > 0

getTradeHistory(ts) ==
    LET totalTrades == Len(ts)
        successfulTrades == Len(SelectSeq(ts, IsSuccessful))
    IN  [trades |-> ts,
         totalTrades |-> totalTrades,
         successfulTrades |-> successfulTrades,
         successRate |-> IF totalTrades > 0 THEN Frac(successfulTrades * 100, totalTrades)
                         ELSE Whole(0)]

IsActive(trade) == trade.status # "closed"

getActiveTrades(ts) == SelectSeq(ts, IsActive)

\* trades.find(...): the first match, or undefined
getTradeBySymbol(ts, symbol) ==
    LET hits == {i \in DOMAIN ts : ts[i].symbol = symbol /\ ts[i].status # "closed"}
    IN  IF hits = {} THEN Undef
        ELSE Some(ts[CHOOSE i \in hits : \A j \in hits : i <= j])

\* saveTrades with setTrades ahead of setItem: a refused write leaves memory changed
saveTrades_SetTradesFirst(mounted, updatedTrades, setItemOk) ==
    /\ trades' = IF mounted THEN updatedTrades ELSE trades
    /\ storage' = IF setItemOk THEN Some(JSONstringify(updatedTrades)) ELSE storage

\* localStorage.setItem(..., JSON.stringify(updatedTrades)); setTrades(updatedTrades).
\* setItem throws when the store refuses the write, and the exception leaves
\* saveTrades before setTrades; setTrades of an unmounted instance does nothing.
saveTrades(mounted, updatedTrades, setItemOk) ==
    IF setItemOk
    THEN /\ storage' = Some(JSONstringify(updatedTrades))
         /\ trades' = IF mounted THEN updatedTrades ELSE trades
    ELSE UNCHANGED <<storage, trades>>

Call(op, ok) == IF ok THEN op ELSE "threw"

Ids(ts) == {ts[i].id : i \in DOMAIN ts}

\* the ids a caller may pass: those of the collection and one of no trade
CallIds(ts) == Ids(ts) \cup {MakeId("A", MaxClock + 1)}

----------------------------------------------------------------------------
(* Calendar dates.  An instant is a count of half days since 1970-01-01T00:00Z, *)
(* a calendar day is a count of days since 1970-01-01.  A date string           *)
(* 'YYYY-MM-DD' is the triple <<y, m, d>>; strings of that shape compare as     *)
(* their triples do, and '' (the empty sequence) is below all of them.          *)
(* A 'YYYY-MM-DD HH:MM:SS' string carries the hour as a fourth element.         *)

HalfDaysPerDay == 2

\* the proleptic Gregorian date of a day count
CivilFromDays(n) ==
    LET z == n + 719468
        era == z \div 146097
        doe == z - era * 146097
        yoe == (doe - doe \div 1460 + doe \div 36524 - doe \div 146096) \div 365
        doy == doe - (365 * yoe + yoe \div 4 - yoe \div 100)
        mp == (5 * doy + 2) \div 153
        d == doy - (153 * mp + 2) \div 5 + 1
        m == IF mp < 10 THEN mp + 3 ELSE mp - 9
        y == yoe + era * 400 + (IF m <= 2 THEN 1 ELSE 0)
    IN  <<y, m, d>>

\* the day count of a date string; new Date('YYYY-MM-DD') is that day's 00:00Z
DaysFromCivil(date) ==
    LET y == IF date[2] <= 2 THEN date[1] - 1 ELSE date[1]
        era == y \div 400
        yoe == y - era * 400
        mp == IF date[2] > 2 THEN date[2] - 3 ELSE date[2] + 9
        doy == (153 * mp + 2) \div 5 + date[3] - 1
        doe == yoe * 365 + yoe \div 4 - yoe \div 100 + doy
    IN  era * 146097 + doe - 719468

\* d.toISOString().split('T')[0] of an instant
IsoDate(t) == CivilFromDays(t \div HalfDaysPerDay)

\* Date.prototype.getUTCDay of a day count: 0 is Sunday, 1970-01-01 was a Thursday
getUTCDay(n) == (n + 4) % 7

\* s.split(' ')[0]
SplitSpace(s) == IF Len(s) > 3 THEN SubSeq(s, 1, 3) ELSE s

\* a < b on strings
RECURSIVE StrLess(_, _)
StrLess(a, b) ==
    IF b = <<>> THEN FALSE
    ELSE IF a = <<>> THEN TRUE
    ELSE IF Head(a) # Head(b) THEN Head(a) < Head(b)
    ELSE StrLess(Tail(a), Tail(b))

\* the offsets of the viewer's time zone, in days, of the local date at 00:00Z
TimeZones == {0, -1}

\* new Date(dateString).getDay(), .getMonth() and .getFullYear() are local
LocalDay(date, zone) == DaysFromCivil(date) + zone

getDay(date, zone) == getUTCDay(LocalDay(date, zone))

MonthKey(date, zone) ==
    LET local == CivilFromDays(LocalDay(date, zone))
    IN  <<local[1], local[2] - 1>>

----------------------------------------------------------------------------
(* Staleness (services/alphaVantageApi.ts and its other version in the tree) *)

getLatestTradingDay(t) ==
    LET d == t \div HalfDaysPerDay
        day == getUTCDay(d)
    IN  CivilFromDays(IF day = 6 THEN d - 1
                      ELSE IF day = 0 THEN d - 2
                      ELSE IF day = 1 THEN d - 3
                      ELSE d)

isDataStale(lastRefreshed, t) ==
    StrLess(SplitSpace(lastRefreshed), getLatestTradingDay(t))

getLatestTradingDay_008(t) ==
    LET d == t \div HalfDaysPerDay
        day == getUTCDay(d)
    IN  CivilFromDays(IF day = 6 THEN d - 1
                      ELSE IF day = 0 THEN d - 2
                      ELSE d)

isDataStale_008(lastRefreshed, t) ==
    StrLess(SplitSpace(lastRefreshed), getLatestTradingDay_008(t))

----------------------------------------------------------------------------
(* Series of ProcessedDataPoint and the six windows of a bundle *)

Point(date, open, high, low, close, volume) ==
    [date |-> date, open |-> open, high |-> high, low |-> low, close |-> close,
     volume |-> volume]

\* values.reduce((sum, v) => sum + v, 0) over the entries lo..hi; the sum of
\* integers does not depend on the grouping, and halving the range keeps the
\* evaluation shallow on series of some hundred points
RECURSIVE SumRange(_, _, _)
SumRange(values, lo, hi) ==
    IF lo > hi THEN 0
    ELSE IF lo = hi THEN values[lo]
    ELSE SumRange(values, lo, (lo + hi) \div 2) + SumRange(values, (lo + hi) \div 2 + 1, hi)

SumVolume(points) ==
    SumRange([i \in 1..Len(points) |-> points[i].volume], 1, Len(points))

RECURSIVE MaxHigh(_)
MaxHigh(points) ==
    IF Len(points) = 1 THEN points[1].high
    ELSE Max(Head(points).high, MaxHigh(Tail(points)))

RECURSIVE MinLow(_)
MinLow(points) ==
    IF Len(points) = 1 THEN points[1].low
    ELSE LET rest == MinLow(Tail(points))
         IN  IF Head(points).low < rest THEN Head(points).low ELSE rest

\* the bucket with the volume of its last day
BucketPoint_LastVolume(bucket) ==
    Point(bucket[Len(bucket)].date, bucket[1].open, MaxHigh(bucket), MinLow(bucket),
          bucket[Len(bucket)].close, bucket[Len(bucket)].volume)

\* the point pushed for a bucket of daily points
BucketPoint(bucket) ==
    Point(bucket[Len(bucket)].date, bucket[1].open, MaxHigh(bucket), MinLow(bucket),
          bucket[Len(bucket)].close, SumVolume(bucket))

\* the forEach of generateWeeklyFromDaily from index i on
RECURSIVE WeeklyFrom(_, _, _, _, _)
WeeklyFrom(dailyData, zone, i, weeklyData, currentWeek) ==
    IF i > Len(dailyData) THEN weeklyData
    ELSE LET week == Append(currentWeek, dailyData[i])
         IN  IF getDay(dailyData[i].date, zone) = 5 \/ i = Len(dailyData)
             THEN WeeklyFrom(dailyData, zone, i + 1, Append(weeklyData, BucketPoint(week)), <<>>)
             ELSE WeeklyFrom(dailyData, zone, i + 1, weeklyData, week)

generateWeeklyFromDaily(dailyData, zone) == WeeklyFrom(dailyData, zone, 1, <<>>, <<>>)

\* the forEach of generateMonthlyFromDaily from index i on, and the final push
RECURSIVE MonthlyFrom(_, _, _, _, _, _)
MonthlyFrom(dailyData, zone, i, monthlyData, currentMonth, currentMonthKey) ==
    IF i > Len(dailyData)
    THEN IF Len(currentMonth) > 0 THEN Append(monthlyData, BucketPoint(currentMonth))
         ELSE monthlyData
    ELSE LET monthKey == MonthKey(dailyData[i].date, zone)
         IN  IF monthKey # currentMonthKey
             THEN MonthlyFrom(dailyData, zone, i + 1,
                              IF Len(currentMonth) > 0
                              THEN Append(monthlyData, BucketPoint(currentMonth))
                              ELSE monthlyData,
                              <<dailyData[i]>>, monthKey)
             ELSE MonthlyFrom(dailyData, zone, i + 1, monthlyData,
                              Append(currentMonth, dailyData[i]), currentMonthKey)

generateMonthlyFromDaily(dailyData, zone) == MonthlyFrom(dailyData, zone, 1, <<>>, <<>>, <<>>)

\* series.slice(-n)
SliceLast(series, n) ==
    IF Len(series) <= n THEN series ELSE SubSeq(series, Len(series) - n + 1, Len(series))

\* series.filter(d => new Date(d.date) >= new Date(t - days)), t an instant
Since(series, t, days) ==
    LET Recent(p) == DaysFromCivil(p.date) * HalfDaysPerDay >= t - days * HalfDaysPerDay
    IN  SelectSeq(series, Recent)

DayPoints == 30
WeekPoints == 12
MonthPoints == 12
ThreeMonthDays == 90
SixMonthDays == 180
YearDays == 365

\* the MultiTimeframeData built from a daily, a weekly and a monthly series at t
Windows(daily, weekly, monthly, t) ==
    [day |-> SliceLast(daily, DayPoints),
     week |-> SliceLast(weekly, WeekPoints),
     month |-> SliceLast(monthly, MonthPoints),
     threeMonth |-> Since(daily, t, ThreeMonthDays),
     sixMonth |-> Since(daily, t, SixMonthDays),
     year |-> Since(daily, t, YearDays)]

BundleKeys == {"day", "week", "month", "threeMonth", "sixMonth", "year"}

----------------------------------------------------------------------------
(* The providers.  A primary payload is the parsed JSON body, or Undef when   *)
(* fetch or response.json() rejects; its time series is the set of its entries *)
(* (an object keyed by date).  A secondary payload is the chart result:       *)
(* timestamps with their quote columns, a missing value being Undef.          *)

Fulfilled(value) == [ok |-> TRUE, value |-> value]
Rejected(error) == [ok |-> FALSE, error |-> error]

Payload(errorMessage, note, timeSeries, lastRefreshed) ==
    [errorMessage |-> errorMessage, note |-> note, timeSeries |-> timeSeries,
     lastRefreshed |-> lastRefreshed]

\* Object.entries(data).map(..).sort((a, b) => date of a - date of b)
RECURSIVE processTimeSeriesData(_)
processTimeSeriesData(data) ==
    IF data = {} THEN <<>>
    ELSE LET first == CHOOSE p \in data :
                          \A q \in data : DaysFromCivil(p.date) <= DaysFromCivil(q.date)
         IN  <<first>> \o processTimeSeriesData(data \ {first})

\* the three fetchers without their test of the rate-limit note
FetchSeries_NoNote(payload) ==
    IF payload = Undef THEN Rejected("fetch failed")
    ELSE IF Val(payload).errorMessage THEN Rejected("Alpha Vantage API Error")
    ELSE IF ~IsDef(Val(payload).timeSeries) THEN Rejected("Failed to fetch data")
    ELSE Fulfilled(processTimeSeriesData(Val(Val(payload).timeSeries)))

\* what fetchDailyData, fetchWeeklyData and fetchMonthlyData share
FetchSeries(payload) ==
    IF payload = Undef THEN Rejected("fetch failed")
    ELSE IF Val(payload).errorMessage THEN Rejected("Alpha Vantage API Error")
    ELSE IF Val(payload).note THEN Rejected("API rate limit exceeded")
    ELSE IF ~IsDef(Val(payload).timeSeries) THEN Rejected("Failed to fetch data")
    ELSE Fulfilled(processTimeSeriesData(Val(Val(payload).timeSeries)))

fetchDailyData(payload) ==
    LET series == FetchSeries(payload)
    IN  IF series.ok
        THEN Fulfilled([data |-> series.value, lastRefreshed |-> Val(payload).lastRefreshed])
        ELSE series

fetchWeeklyData(payload) == FetchSeries(payload)

fetchMonthlyData(payload) == FetchSeries(payload)

\* x || 0
OrZero(x) == IF IsDef(x) THEN Val(x) ELSE 0

YahooPoint(bar) ==
    Point(IsoDate(bar.timestamp), OrZero(bar.open), OrZero(bar.high), OrZero(bar.low),
          OrZero(bar.close), OrZero(bar.volume))

HasClose(point) == point.close > 0

YahooPoints(bars) == [i \in DOMAIN bars |-> YahooPoint(bars[i])]

\* bars is Undef when the proxy fails or the body has no timestamp array; with
\* an empty timestamp array toISOString() of the invalid Date throws
fetchYahooFinanceData(bars) ==
    IF bars = Undef \/ Val(bars) = <<>>
    THEN Rejected("Failed to fetch data from Yahoo Finance via CORS proxy")
    ELSE Fulfilled([data |-> SelectSeq(YahooPoints(Val(bars)), HasClose),
                    lastRefreshed |-> IsoDate(Val(bars)[Len(Val(bars))].timestamp)])

QuoteStatus(lastRefreshed, t) ==
    [lastRefreshed |-> lastRefreshed, isStale |-> isDataStale(lastRefreshed, t)]

\* the return value of the try block
PrimaryBundle(daily, weekly, monthly, t) ==
    [data |-> Windows(daily.data, weekly, monthly, t),
     status |-> QuoteStatus(daily.lastRefreshed, t)]

\* the return value of the catch block
FallbackBundle_NoDerivation(yahooData, t, zone) ==
    [data |-> Windows(yahooData.data, yahooData.data, yahooData.data, t),
     status |-> QuoteStatus(yahooData.lastRefreshed, t)]

FallbackBundle(yahooData, t, zone) ==
    [data |-> Windows(yahooData.data, generateWeeklyFromDaily(yahooData.data, zone),
                      generateMonthlyFromDaily(yahooData.data, zone), t),
     status |-> QuoteStatus(yahooData.lastRefreshed, t)]

PrimaryRequests == {"daily", "weekly", "monthly"}

FetchPrimary(request, payload) ==
    CASE request = "daily" -> fetchDailyData(payload)
      [] request = "weekly" -> fetchWeeklyData(payload)
      [] request = "monthly" -> fetchMonthlyData(payload)

\* the locals of one getMultiTimeframeData call
MtfIdle ==
    [pc |-> "idle", pending |-> {}, rejected |-> {}, got |-> <<>>, yahooData |-> Undef,
     result |-> Undef]

----------------------------------------------------------------------------
(* The recommendation oracle as analyzeSymbol sees it.  A response is Undef   *)
(* when fetch or response.json() rejects, else the status line and the parsed *)
(* body.  A text is a sequence of pieces, '' being <<>>.                      *)

Includes(text, piece) == \E i \in DOMAIN text : text[i] = piece

\* the words the flow looks for in an error message
Keywords(message) ==
    CASE message = "rate_limit_exceeded" -> {"rate_limit"}
      [] message = "The model o3 does not exist" -> {"model", "exist"}
      [] message = "invalid_api_key" -> {"invalid_api_key"}
      [] OTHER -> {}

Response(ok, status, errorMessage, choices) ==
    [ok |-> ok, status |-> status, errorMessage |-> errorMessage, choices |-> choices]

\* the content of choices[0].message: the text and what JSON.parse makes of it
\* once a code fence is stripped, Undef when it throws
Content(text, json) == [text |-> text, json |-> json]

\* a parsed object without recommendationType, and one whose action has no optionType
NoTypeRec == [action |-> Undef]
NoOptionTypeRec ==
    [recommendationType |-> "Call Option Recommended", action |-> Some([strikePrice |-> 100])]

formatRecommendationForDisplay(response) ==
    IF "recommendationType" \notin DOMAIN response THEN Rejected("TypeError")
    ELSE IF /\ IsDef(response.action)
            /\ response.recommendationType # "No Action Recommended"
            /\ "optionType" \notin DOMAIN Val(response.action)
    THEN Rejected("TypeError")
    ELSE Fulfilled(<<response.recommendationType, "Candlestick Pattern Analysis">>)

\* the content as it came
formatPlainTextResponse_Raw(content) == content

formatPlainTextResponse(content) ==
    IF \/ Includes(content, "Call Option Recommended")
       \/ Includes(content, "Put Option Recommended")
       \/ Includes(content, "No Action Recommended")
    THEN content
    ELSE <<"ANALYSIS RESULT">> \o content

\* request(model) of part_003 once the response is in
oracleRequest(response) ==
    IF response = Undef THEN Rejected("Failed to fetch")
    ELSE LET r == Val(response)
         IN  IF ~r.ok
             THEN IF r.status = 429 THEN Rejected("rate_limit_exceeded")
                  ELSE IF IsDef(r.errorMessage) THEN Rejected(Val(r.errorMessage))
                  ELSE Rejected("OpenAI API error")
             ELSE IF ~IsDef(r.choices) THEN Rejected("Invalid response from OpenAI")
             ELSE IF ~IsDef(Val(r.choices)) THEN Rejected("TypeError")
             ELSE LET content == Val(Val(r.choices))
                      formatted == IF IsDef(content.json)
                                   THEN formatRecommendationForDisplay(Val(content.json))
                                   ELSE Rejected("SyntaxError")
                  IN  IF formatted.ok
                      THEN Fulfilled([recommendation |-> formatted.value,
                                      parsedRecommendation |-> content.json])
                      ELSE Fulfilled([recommendation |-> formatPlainTextResponse(content.text),
                                      parsedRecommendation |-> Undef])

\* the body of the older version's try block once the response is in: it does
\* not look at response.ok
oracleRequest_tsx(response) ==
    IF response = Undef THEN Rejected("Failed to fetch")
    ELSE LET r == Val(response)
         IN  IF ~r.ok \/ ~IsDef(r.choices) THEN Rejected("Invalid response from OpenAI")
             ELSE IF ~IsDef(Val(r.choices)) THEN Rejected("TypeError")
             ELSE LET content == Val(Val(r.choices))
                      formatted == IF IsDef(content.json)
                                   THEN formatRecommendationForDisplay(Val(content.json))
                                   ELSE Rejected("SyntaxError")
                  IN  IF formatted.ok
                      THEN Fulfilled([recommendation |-> formatted.value,
                                      parsedRecommendation |-> content.json])
                      ELSE Fulfilled([recommendation |-> formatPlainTextResponse(content.text),
                                      parsedRecommendation |-> Undef])

\* error.message.includes('rate_limit') || error.message.includes('429')
isRateLimit(message) == Keywords(message) \cap {"rate_limit", "429"} # {}

\* the catch of makeOpenAIRequest: the o3 request failed for want of the model
ModelUnavailable(message) == Keywords(message) \cap {"model", "exist"} # {}

\* the same delay before every attempt
Delay_Constant(baseDelay, attempt) == baseDelay

\* baseDelay * Math.pow(2, attempt - 1)
Delay(baseDelay, attempt) == baseDelay * 2 ^ (attempt - 1)

\* the recommendation of the catch (openaiError) block
FallbackText(message) ==
    IF "rate_limit" \in Keywords(message) THEN <<"TECHNICAL ANALYSIS (RATE LIMITED)">>
    ELSE IF "invalid_api_key" \in Keywords(message) THEN <<"NO ACTION RECOMMENDED (DEMO MODE)">>
    ELSE <<"TECHNICAL ANALYSIS (FALLBACK MODE)">>

DemoText == <<"NO ACTION RECOMMENDED (DEMO MODE)">>
StaleText == <<"Data last refreshed on", "Analysis skipped due to stale data.">>
ErrorText == <<"Error analyzing", "Please try again.">>

Entry(symbol, recommendation, loading, charts, parsedRecommendation) ==
    [symbol |-> symbol, recommendation |-> recommendation, loading |-> loading,
     charts |-> charts, parsedRecommendation |-> parsedRecommendation]

\* [...prev.filter(r => r.symbol !== symbol), entry]
Replace(prev, entry) ==
    LET Other(r) == r.symbol # entry.symbol
    IN  Append(SelectSeq(prev, Other), entry)

\* prev.map(r => r.symbol === symbol ? entry : r)
Update(prev, entry) ==
    [i \in DOMAIN prev |-> IF prev[i].symbol = entry.symbol THEN entry ELSE prev[i]]

\* the charts generateMultiTimeframeCharts renders: one for each key of its
\* argument that holds a non-empty series
ChartsOf(data) == {key \in BundleKeys \cap DOMAIN data : Len(data[key]) > 0}

FlowIdle ==
    [pc |-> "idle", symbol |-> "", data |-> Undef, status |-> Undef, charts |-> Undef,
     attempt |-> 0, model |-> "", requests |-> 0, slept |-> <<>>, error |-> Undef]

----------------------------------------------------------------------------
(* The price poller: PriceMonitor, the host's interval timers and the        *)
(* getQuickPrice calls of its fetchPrice closures                            *)

DefaultIntervalMs == 300000
TickMs == 150000

EmptyMap == [key \in {} |-> 0]

Put(map, key, value) ==
    [k \in DOMAIN map \cup {key} |-> IF k = key THEN value ELSE map[k]]

Delete(map, key) == [k \in DOMAIN map \ {key} |-> map[k]]

Values(map) == {map[k] : k \in DOMAIN map}

\* the body of the GLOBAL_QUOTE response: Undef when the fetch itself fails
Quote(errorMessage, note, price) ==
    [errorMessage |-> errorMessage, note |-> note, price |-> price]

\* getQuickPrice: the quote's price, null (Undef) on every failure
getQuickPrice(response) ==
    IF response = Undef THEN Fulfilled(Undef)
    ELSE LET data == Val(response)
         IN  IF data.errorMessage \/ data.note THEN Fulfilled(Undef)
             ELSE IF ~IsDef(data.price) THEN Fulfilled(Undef)
             ELSE Fulfilled(Some([currentPrice |-> Val(data.price)]))

\* if (result) of fetchPrice, whose try block also covers a rejection
Invokes_Settled(outcome) == outcome.ok

Invokes(outcome) == outcome.ok /\ IsDef(outcome.value)

\* a fetchPrice closure made by one startMonitoring call at time t, with the
\* number of its getQuickPrice calls in flight (the first begins at once) and
\* whether a client has stopped its symbol since
Closure(symbol, intervalMs, t) ==
    [symbol |-> symbol, intervalMs |-> intervalMs, since |-> t, inflight |-> 1,
     stopped |-> FALSE]

\* the getQuickPrice call that settled last: whether it gave a price and
\* whether the callback was invoked
Settled(priced, invoked) == [priced |-> priced, invoked |-> invoked]

MonitorIdle ==
    [intervals |-> EmptyMap, callbacks |-> EmptyMap, timers |-> EmptyMap, closures |-> <<>>,
     settled |-> Undef]

stopMonitoring(m, symbol) ==
    LET cleared == IF symbol \in DOMAIN m.intervals
                   THEN [m EXCEPT !.timers = Delete(@, m.intervals[symbol]),
                                  !.intervals = Delete(@, symbol)]
                   ELSE m
    IN  [cleared EXCEPT !.callbacks = Delete(@, symbol)]

\* startMonitoring without its stopMonitoring(symbol): the timer of an earlier
\* start stays scheduled
startMonitoring_NoStop(m, symbol, intervalMs, t) ==
    LET id == Len(m.closures) + 1
    IN  [m EXCEPT
            !.callbacks = Put(@, symbol, id),
            !.closures = Append(@, Closure(symbol, intervalMs, t)),
            !.timers = Put(@, id, t + intervalMs),
            !.intervals = Put(@, symbol, id)]

\* the timer made by setInterval and the closure are numbered alike; the closure
\* begins its first getQuickPrice call at once
startMonitoring(m, symbol, intervalMs, t) ==
    LET stopped == stopMonitoring(m, symbol)
        id == Len(m.closures) + 1
        Restarted(c) == IF c.symbol = symbol THEN [c EXCEPT !.stopped = FALSE] ELSE c
    IN  [stopped EXCEPT
            !.callbacks = Put(@, symbol, id),
            !.closures = Append([i \in DOMAIN @ |-> Restarted(@[i])],
                                Closure(symbol, intervalMs, t)),
            !.timers = Put(@, id, t + intervalMs),
            !.intervals = Put(@, symbol, id)]

\* every timer of the map is cleared, the maps are emptied
stopAllMonitoring_KeepTimers(m) ==
    [m EXCEPT !.intervals = EmptyMap, !.callbacks = EmptyMap]

stopAllMonitoring(m) ==
    [m EXCEPT !.timers = [id \in DOMAIN @ \ Values(m.intervals) |-> @[id]],
              !.intervals = EmptyMap,
              !.callbacks = EmptyMap]

\* activeTrades.forEach(trade => priceMonitor.startMonitoring(trade.symbol, ...))
RECURSIVE StartAll(_, _, _)
StartAll(m, symbols, t) ==
    IF symbols = <<>> THEN m
    ELSE StartAll(startMonitoring(m, Head(symbols), DefaultIntervalMs, t), Tail(symbols), t)

----------------------------------------------------------------------------
(* What a specification of one part leaves at rest in the others *)

\* no analyzeAllSymbols has been called
BatchIdle ==
    [pc |-> "idle", isAnalyzing |-> FALSE, currentSymbolIndex |-> 0, started |-> <<>>,
     slept |-> <<>>, runs |-> 0, overlap |-> FALSE]

AnalysisIdle ==
    /\ recommendations = <<>>
    /\ flow = FlowIdle
    /\ batch = BatchIdle
    /\ config = [version |-> "part_003", apiKey |-> FALSE, maxRetries |-> 3, baseDelay |-> 2000]

PollerIdle ==
    /\ monitor = MonitorIdle
    /\ results = "never"

ServicesIdle ==
    /\ mtf = MtfIdle
    /\ tz = 0
    /\ args = Undef
    /\ AnalysisIdle
    /\ PollerIdle

LedgerIdle ==
    /\ storage = NoBlob
    /\ trades = <<>>
    /\ loaded = FALSE
    /\ last = "mount"
    /\ view = "input"
    /\ recs = {}
    /\ conts = {}
    /\ calls = 0
    /\ returned = Undef

----------------------------------------------------------------------------
(* The hook driven directly: every call is made on the functions of the   *)
(* latest render, as a test harness or a synchronous event handler does.  *)

InitHook ==
    /\ storage = NoBlob
    /\ trades = <<>>
    /\ loaded = FALSE
    /\ now = 0
    /\ last = "mount"
    /\ view = "hook"
    /\ recs = {}
    /\ conts = {}
    /\ calls = 0
    /\ returned = Undef
    /\ ServicesIdle

\* useEffect(() => { ... }, []) of the instance just mounted
LoadEffect ==
    /\ view # "input"
    /\ ~loaded
    /\ loaded' = TRUE
    /\ trades' = IF IsDef(storage) THEN LoadTrades(Val(storage)) ELSE trades
    /\ last' = "load"
    /\ UNCHANGED <<storage, now, calls, returned, appVars, svcVars>>

ConfirmTradeCall(symbol, recommendation, entryPrice, setItemOk) ==
    /\ view = "hook"
    /\ loaded
    /\ calls < MaxCalls
    /\ calls' = calls + 1
    /\ saveTrades(TRUE, confirmTrade(trades, symbol, recommendation, entryPrice, now), setItemOk)
    /\ last' = Call("confirmTrade", setItemOk)
    /\ UNCHANGED <<loaded, now, returned, appVars, svcVars>>

UpdateTradePriceCall(tradeId, currentPrice, entryPrice, setItemOk) ==
    /\ view = "hook"
    /\ loaded
    /\ calls < MaxCalls
    /\ calls' = calls + 1
    /\ saveTrades(TRUE, updateTradePrice(trades, tradeId, currentPrice, entryPrice), setItemOk)
    /\ last' = Call("updateTradePrice", setItemOk)
    /\ UNCHANGED <<loaded, now, returned, appVars, svcVars>>

CloseTradeCall(tradeId, setItemOk) ==
    /\ view = "hook"
    /\ loaded
    /\ calls < MaxCalls
    /\ calls' = calls + 1
    /\ saveTrades(TRUE, closeTrade(trades, tradeId, now), setItemOk)
    /\ last' = Call("closeTrade", setItemOk)
    /\ UNCHANGED <<loaded, now, returned, appVars, svcVars>>

\* the clock moves on; two calls may read the same millisecond
Tick ==
    /\ now < MaxClock
    /\ now' = now + 1
    /\ UNCHANGED <<storage, trades, loaded, last, calls, returned, appVars, svcVars>>

\* the page is reloaded: a new instance starts from useState([])
Remount ==
    /\ view = "hook"
    /\ loaded
    /\ trades' = <<>>
    /\ loaded' = FALSE
    /\ last' = "mount"
    /\ UNCHANGED <<storage, now, calls, returned, appVars, svcVars>>

NextHook ==
    \/ LoadEffect
    \/ \E s \in HookSymbols, r \in Recommendations, e \in Opt(EntryPrices), ok \in BOOLEAN :
          ConfirmTradeCall(s, r, e, ok)
    \/ \E id \in CallIds(trades), p \in Prices, e \in Opt(EntryPrices), ok \in BOOLEAN :
          UpdateTradePriceCall(id, p, e, ok)
    \/ \E id \in CallIds(trades), ok \in BOOLEAN : CloseTradeCall(id, ok)
    \/ Tick
    \/ Remount

Spec == InitHook /\ [][NextHook]_vars

----------------------------------------------------------------------------
(* The queries, applied to collections the mutations produce.  A sample   *)
(* trade is confirmed at the clock reading of its place in the collection *)
(* and then priced, closed or left alone.                                 *)

SampleKinds == {"unpriced", "call3", "call0", "put-2", "put-5", "closed3"}

SampleTrade(kind, t) ==
    CASE kind = "unpriced" -> NewTrade("A", CallRec, Undef, t)
      [] kind = "call3" -> UpdatedTrade(NewTrade("A", CallRec, Some(2), t), 105, Undef)
      [] kind = "call0" -> UpdatedTrade(NewTrade("A", CallRec, Some(5), t), 105, Undef)
      [] kind = "put-2" -> UpdatedTrade(NewTrade("B", PutRec, Some(2), t), 105, Undef)
      [] kind = "put-5" -> UpdatedTrade(NewTrade("B", PutRec, Some(5), t), 105, Undef)
      [] kind = "closed3" ->
            closeTrade(<<UpdatedTrade(NewTrade("B", CallRec, Some(2), t), 105, Undef)>>,
                       MakeId("B", t), t)[1]

InitQueries ==
    /\ \E n \in 0..MaxHistory : \E kinds \in [1..n -> SampleKinds] :
          trades = [i \in 1..n |-> SampleTrade(kinds[i], i)]
    /\ storage = Some(JSONstringify(trades))
    /\ loaded = TRUE
    /\ now = MaxHistory
    /\ last = "load"
    /\ view = "hook"
    /\ recs = {}
    /\ conts = {}
    /\ calls = 0
    /\ returned = Undef
    /\ ServicesIdle

GetTradeHistoryCall ==
    /\ returned' = Some(getTradeHistory(trades))
    /\ last' = "getTradeHistory"
    /\ UNCHANGED <<storage, trades, loaded, now, calls, appVars, svcVars>>

GetTradeBySymbolCall(symbol) ==
    /\ returned' = Some([symbol |-> symbol, trade |-> getTradeBySymbol(trades, symbol)])
    /\ last' = "getTradeBySymbol"
    /\ UNCHANGED <<storage, trades, loaded, now, calls, appVars, svcVars>>

NextQueries ==
    \/ GetTradeHistoryCall
    \/ \E s \in Symbols : GetTradeBySymbolCall(s)

SpecQueries == InitQueries /\ [][NextQueries]_vars

----------------------------------------------------------------------------
(* The views.  App shows the symbol input, OptionsAnalysis or             *)
(* TradeResults; each of the two views mounts its own useTradeTracking    *)
(* instance.  A handler closes over the functions of the render it was    *)
(* created in, so what it calls after an await still maps over the        *)
(* collection of that render.                                             *)

\* the recommendation the oracle returns for a symbol
RecFor(symbol) == IF symbol = "A" THEN CallRec ELSE PutRec

ParseFloat(text) == CASE text = "0" -> 0 [] text = "2" -> 2

\* entryPriceStr ? parseFloat(entryPriceStr) : undefined
EntryPriceOf(text) == IF text = "" THEN Undef ELSE Some(ParseFloat(text))

\* a handler suspended at `await priceMonitor.getCurrentPrice(..)`: the collection
\* its updateTradePrice closes over, the ids it has still to price, the entryPrice
\* it passes on, and whether its hook instance is still mounted
Cont(kind, snap, queue, entryPrice) ==
    [kind |-> kind, live |-> TRUE, snap |-> snap, queue |-> queue, entryPrice |-> entryPrice]

IsConfirmed(trade) == trade.status = "confirmed"

IdsOf(ts) == [i \in DOMAIN ts |-> ts[i].id]

Refreshing == \E c \in conts : c.kind = "refresh" /\ c.live

InitApp ==
    /\ storage = NoBlob
    /\ trades = <<>>
    /\ loaded = FALSE
    /\ now = 0
    /\ last = "mount"
    /\ view = "input"
    /\ recs = {}
    /\ conts = {}
    /\ calls = 0
    /\ returned = Undef
    /\ ServicesIdle

\* setCurrentView(v): the view is rendered with a new hook instance
Show(v) ==
    /\ view = "input"
    /\ view' = v
    /\ trades' = <<>>
    /\ loaded' = FALSE
    /\ recs' = {}
    /\ last' = "mount"
    /\ UNCHANGED <<storage, now, calls, returned, conts, svcVars>>

HandleAnalyze == Show("analysis")

HandleViewResults == Show("results")

\* onBack of either view: the input screen is rendered, the instance is unmounted;
\* what its handlers still await stays in flight
OnBack ==
    /\ view \in {"analysis", "results"}
    /\ view' = "input"
    /\ trades' = <<>>
    /\ loaded' = FALSE
    /\ recs' = {}
    /\ last' = "unmount"
    /\ conts' = {[c EXCEPT !.live = FALSE] : c \in {d \in conts : d.queue # <<>>}}
    /\ UNCHANGED <<storage, now, calls, returned, svcVars>>

\* analyzeSymbol ends with an actionable recommendation for the symbol
AnalyzeSymbol(symbol) ==
    /\ view = "analysis"
    /\ symbol \notin recs
    /\ recs' = recs \cup {symbol}
    /\ UNCHANGED <<storage, trades, loaded, now, last, calls, returned, view, conts, svcVars>>

\* the user types the entry price text and presses "Track this trade"
HandleConfirmTrade(symbol, text, setItemOk) ==
    LET entryPrice == EntryPriceOf(text)
        awaits == setItemOk /\ Truthy(entryPrice)
    IN  /\ view = "analysis"
        /\ loaded
        /\ symbol \in recs
        /\ getTradeBySymbol(trades, symbol) = Undef
        /\ awaits => Cardinality(conts) < MaxConts
        /\ saveTrades(TRUE, confirmTrade(trades, symbol, RecFor(symbol), entryPrice, now),
                      setItemOk)
        /\ last' = Call("confirmTrade", setItemOk)
        /\ conts' = IF awaits
                    THEN conts \cup {Cont("confirm", trades, <<MakeId(symbol, now)>>, entryPrice)}
                    ELSE conts
        /\ UNCHANGED <<loaded, now, calls, returned, view, recs, svcVars>>

\* "Refresh Prices": the loop suspends at the first confirmed active trade
HandleRefreshPrices ==
    LET queue == IdsOf(SelectSeq(getActiveTrades(trades), IsConfirmed))
    IN  /\ view = "results"
        /\ loaded
        /\ ~Refreshing
        /\ queue # <<>>
        /\ Cardinality(conts) < MaxConts
        /\ conts' = conts \cup {Cont("refresh", trades, queue, Undef)}
        /\ UNCHANGED <<storage, trades, loaded, now, last, calls, returned, view, recs, svcVars>>

\* getCurrentPrice resolves with a price or with null, and the handler runs on to
\* its next await or to its end; a throw of saveTrades ends it where it is
Resume(c, price, setItemOk) ==
    LET threw == IsDef(price) /\ ~setItemOk
        rest == Tail(c.queue)
    IN  /\ c \in conts
        /\ c.queue # <<>>
        /\ IF IsDef(price)
           THEN /\ saveTrades(c.live,
                              updateTradePrice(c.snap, Head(c.queue), Val(price), c.entryPrice),
                              setItemOk)
                /\ last' = Call("updateTradePrice", setItemOk)
           ELSE UNCHANGED <<storage, trades, last>>
        /\ conts' = IF threw
                    THEN IF c.kind = "refresh" /\ c.live
                         THEN (conts \ {c}) \cup {[c EXCEPT !.queue = <<>>]}
                         ELSE conts \ {c}
                    ELSE IF rest = <<>> THEN conts \ {c}
                         ELSE (conts \ {c}) \cup {[c EXCEPT !.queue = rest]}
        /\ UNCHANGED <<loaded, now, calls, returned, view, recs, svcVars>>

\* "Close Trade" of an active trade
HandleCloseTrade(tradeId, setItemOk) ==
    /\ view = "results"
    /\ loaded
    /\ \E i \in DOMAIN trades : trades[i].id = tradeId /\ IsActive(trades[i])
    /\ saveTrades(TRUE, closeTrade(trades, tradeId, now), setItemOk)
    /\ last' = Call("closeTrade", setItemOk)
    /\ UNCHANGED <<loaded, now, calls, returned, appVars, svcVars>>

NextApp ==
    \/ HandleAnalyze
    \/ HandleViewResults
    \/ OnBack
    \/ LoadEffect
    \/ \E s \in Symbols : AnalyzeSymbol(s)
    \/ \E s \in Symbols, text \in EntryTexts, ok \in BOOLEAN :
          Len(trades) < MaxTrades /\ HandleConfirmTrade(s, text, ok)
    \/ HandleRefreshPrices
    \/ \E c \in conts, p \in Opt(Prices), ok \in BOOLEAN : Resume(c, p, ok)
    \/ \E id \in Ids(trades), ok \in BOOLEAN : HandleCloseTrade(id, ok)
    \/ Tick

SpecApp == InitApp /\ [][NextApp]_vars

\* the views with a user who analyses and tracks one symbol again and again
NextRepeat ==
    \/ HandleAnalyze
    \/ HandleViewResults
    \/ OnBack
    \/ LoadEffect
    \/ AnalyzeSymbol("A")
    \/ \E text \in EntryTexts, ok \in BOOLEAN :
          Len(trades) < MaxRepeats /\ HandleConfirmTrade("A", text, ok)
    \/ HandleRefreshPrices
    \/ \E c \in conts, p \in Opt(Prices), ok \in BOOLEAN : Resume(c, p, ok)
    \/ \E id \in Ids(trades), ok \in BOOLEAN : HandleCloseTrade(id, ok)
    \/ Tick

SpecRepeat == InitApp /\ [][NextRepeat]_vars

----------------------------------------------------------------------------
(* getMultiTimeframeData (services/alphaVantageApi.ts), one call of it *)

Noon(date) == DaysFromCivil(date) * HalfDaysPerDay + 1

\* entries the primary provider may send: one of last Friday, one of 101 days ago
PrimaryEntries ==
    {Point(<<2024, 1, 5>>, 1, 3, 1, 2, 10), Point(<<2023, 9, 29>>, 1, 3, 1, 2, 10)}

PrimaryPayloads(lastRefresheds) ==
    {Undef}
    \cup {Some(Payload(TRUE, FALSE, Undef, <<>>)), Some(Payload(FALSE, TRUE, Undef, <<>>)),
          Some(Payload(FALSE, FALSE, Undef, <<>>))}
    \cup {Some(Payload(FALSE, FALSE, Some(entries), lastRefreshed)) :
              entries \in SUBSET PrimaryEntries, lastRefreshed \in lastRefresheds}

PayloadsOf(request) ==
    IF request = "daily" THEN PrimaryPayloads({<<>>, <<2024, 1, 5, 16>>})
    ELSE PrimaryPayloads({<<>>})

\* bars the secondary provider may send, a null close among them
YahooBars ==
    {[timestamp |-> Noon(date), open |-> Some(1), high |-> Some(3), low |-> Some(1),
      close |-> close, volume |-> Some(7)] :
        date \in {<<2023, 9, 28>>, <<2024, 1, 4>>, <<2024, 1, 5>>}, close \in {Undef, Some(2)}}

RECURSIVE BarSeqs(_)
BarSeqs(n) ==
    IF n = 0 THEN {<<>>}
    ELSE LET shorter == BarSeqs(n - 1)
         IN  shorter \cup {Append(bars, bar) : bars \in shorter, bar \in YahooBars}

Ascending(bars) ==
    \A i \in 1..(Len(bars) - 1) : bars[i].timestamp < bars[i + 1].timestamp

YahooPayloads == {Undef} \cup {Some(bars) : bars \in {b \in BarSeqs(MaxBars) : Ascending(b)}}

InitBundle ==
    /\ LedgerIdle
    /\ now = Noon(<<2024, 1, 8>>)
    /\ tz \in TimeZones
    /\ mtf = MtfIdle
    /\ args = Undef
    /\ AnalysisIdle
    /\ PollerIdle

\* the call: the three primary requests are issued before the first await
GetMultiTimeframeData ==
    /\ mtf.pc = "idle"
    /\ mtf' = [mtf EXCEPT !.pc = "primary", !.pending = PrimaryRequests]
    /\ UNCHANGED <<ledgerVars, tz, args, recommendations, flow, config, monitor, results, batch>>

\* one primary request settles; Promise.all rejects with the first rejection and
\* fulfils with the last fulfilment, what settles after that is dropped
PrimarySettles(request, payload) ==
    LET outcome == FetchPrimary(request, payload)
        pending == mtf.pending \ {request}
        got == IF outcome.ok THEN mtf.got @@ (request :> outcome.value) ELSE mtf.got
        rejected == IF outcome.ok THEN mtf.rejected ELSE mtf.rejected \cup {request}
        settled == [mtf EXCEPT !.pending = pending, !.got = got, !.rejected = rejected]
    IN  /\ request \in mtf.pending
        /\ mtf' = IF mtf.pc # "primary" THEN settled
                  ELSE IF ~outcome.ok THEN [settled EXCEPT !.pc = "secondary"]
                  ELSE IF pending # {} THEN settled
                  ELSE [settled EXCEPT
                           !.pc = "returned",
                           !.result = Some(PrimaryBundle(got.daily, got.weekly, got.monthly,
                                                         now))]
        /\ UNCHANGED <<ledgerVars, tz, args, recommendations, flow, config, monitor, results, batch>>

\* the secondary request settles
SecondarySettles(bars) ==
    LET outcome == fetchYahooFinanceData(bars)
    IN  /\ mtf.pc = "secondary"
        /\ mtf' = IF ~outcome.ok THEN [mtf EXCEPT !.pc = "threw"]
                  ELSE IF Len(outcome.value.data) = 0
                  THEN [mtf EXCEPT !.pc = "threw", !.yahooData = Some(outcome.value)]
                  ELSE [mtf EXCEPT !.pc = "returned",
                                   !.yahooData = Some(outcome.value),
                                   !.result = Some(FallbackBundle(outcome.value, now, tz))]
        /\ UNCHANGED <<ledgerVars, tz, args, recommendations, flow, config, monitor, results, batch>>

NextBundle ==
    \/ GetMultiTimeframeData
    \/ \E request \in PrimaryRequests :
          \E payload \in PayloadsOf(request) : PrimarySettles(request, payload)
    \/ \E bars \in YahooPayloads : SecondarySettles(bars)

SpecBundle == InitBundle /\ [][NextBundle]_vars

----------------------------------------------------------------------------
(* isDataStale called directly, in both versions of the tree *)

FirstDay == DaysFromCivil(<<2024, 1, 1>>)

\* the instants of the days FirstDay .. FirstDay + StaleDays - 1, at 00:00Z and 12:00Z
StaleNows ==
    {d * HalfDaysPerDay + h : d \in FirstDay..(FirstDay + StaleDays - 1),
                             h \in 0..(HalfDaysPerDay - 1)}

\* 'Last Refreshed' values: a date up to ten days before FirstDay, with or without
\* a time of day
LastRefresheds ==
    {CivilFromDays(d) : d \in (FirstDay - 10)..(FirstDay + StaleDays - 1)}
    \cup {CivilFromDays(d) \o <<16>> : d \in (FirstDay - 10)..(FirstDay + StaleDays - 1)}

InitStale ==
    /\ LedgerIdle
    /\ mtf = MtfIdle
    /\ tz = 0
    /\ now \in StaleNows
    /\ args \in {Some(lastRefreshed) : lastRefreshed \in LastRefresheds}
    /\ AnalysisIdle
    /\ PollerIdle

IsDataStaleCall ==
    /\ last = "mount"
    /\ last' = "isDataStale"
    /\ returned' = Some(isDataStale(Val(args), now))
    /\ UNCHANGED <<storage, trades, loaded, now, calls, appVars, svcVars>>

IsDataStale008Call ==
    /\ last = "mount"
    /\ last' = "isDataStale_008"
    /\ returned' = Some(isDataStale_008(Val(args), now))
    /\ UNCHANGED <<storage, trades, loaded, now, calls, appVars, svcVars>>

NextStale ==
    \/ IsDataStaleCall
    \/ IsDataStale008Call

SpecStale == InitStale /\ [][NextStale]_vars

----------------------------------------------------------------------------
(* generateWeeklyFromDaily and generateMonthlyFromDaily called on daily      *)
(* series that cross a week's and a month's end                              *)

MaxDays == 3

\* Thursday 29 February, Friday 1 March, Monday 4 March and Friday 8 March 2024
DeriveDates == <<<<2024, 2, 29>>, <<2024, 3, 1>>, <<2024, 3, 4>>, <<2024, 3, 8>>>>

Volumes == {3, 5}

\* the daily points of the dates chosen, in the order of time
RECURSIVE DailyFrom(_, _, _)
DailyFrom(i, chosen, volume) ==
    IF i > Len(DeriveDates) THEN <<>>
    ELSE (IF i \in chosen THEN <<Point(DeriveDates[i], 1, 3, 1, 2, volume[i])>> ELSE <<>>)
         \o DailyFrom(i + 1, chosen, volume)

DailySeries ==
    UNION {{DailyFrom(1, chosen, volume) : volume \in [chosen -> Volumes]} :
               chosen \in {c \in SUBSET DOMAIN DeriveDates : Cardinality(c) <= MaxDays}}

InitDerive ==
    /\ LedgerIdle
    /\ now = 0
    /\ mtf = MtfIdle
    /\ tz \in TimeZones
    /\ args \in {Some(dailyData) : dailyData \in DailySeries}
    /\ AnalysisIdle
    /\ PollerIdle

GenerateWeeklyCall ==
    /\ last = "mount"
    /\ last' = "generateWeeklyFromDaily"
    /\ returned' = Some(generateWeeklyFromDaily(Val(args), tz))
    /\ UNCHANGED <<storage, trades, loaded, now, calls, appVars, svcVars>>

GenerateMonthlyCall ==
    /\ last = "mount"
    /\ last' = "generateMonthlyFromDaily"
    /\ returned' = Some(generateMonthlyFromDaily(Val(args), tz))
    /\ UNCHANGED <<storage, trades, loaded, now, calls, appVars, svcVars>>

NextDerive ==
    \/ GenerateWeeklyCall
    \/ GenerateMonthlyCall

SpecDerive == InitDerive /\ [][NextDerive]_vars

----------------------------------------------------------------------------
(* analyzeSymbol of the OptionsAnalysis view: the version with the staleness *)
(* gate and retryWithBackoff, and the older one that has neither             *)

Versions == {"part_003", "OptionsAnalysis.tsx"}

OracleMaxRetries == 3
OracleBaseDelay == 2000
DefaultBaseDelay == 1000

AnalysisSymbol == "A"

SampleData == [key \in BundleKeys |-> <<Point(<<2024, 1, 5>>, 1, 3, 1, 2, 10)>>]

BundleResults ==
    {Rejected("Unable to fetch stock data from any source")}
    \cup {Fulfilled([data |-> SampleData,
                     status |-> [lastRefreshed |-> <<2024, 1, 5>>, isStale |-> isStale]]) :
              isStale \in BOOLEAN}

Contents ==
    {Content(<<"{json}">>, Some(json)) : json \in {CallRec, NoActionRec, NoTypeRec, NoOptionTypeRec}}
    \cup {Content(<<"prose">>, Undef), Content(<<>>, Undef),
          Content(<<"prose", "Call Option Recommended">>, Undef)}

OracleResponses ==
    {Undef,
     Some(Response(FALSE, 429, Undef, Undef)),
     Some(Response(FALSE, 404, Some("The model o3 does not exist"), Undef)),
     Some(Response(FALSE, 401, Some("invalid_api_key"), Undef)),
     Some(Response(FALSE, 500, Undef, Undef)),
     Some(Response(TRUE, 200, Undef, Undef)),
     Some(Response(TRUE, 200, Undef, Some(Undef)))}
    \cup {Some(Response(TRUE, 200, Undef, Some(Some(content)))) : content \in Contents}

InitAnalysis ==
    /\ LedgerIdle
    /\ now = 0
    /\ mtf = MtfIdle
    /\ tz = 0
    /\ args = Undef
    /\ recommendations = <<>>
    /\ flow = FlowIdle
    /\ batch = BatchIdle
    /\ config \in [version : Versions, apiKey : BOOLEAN,
                   maxRetries : 1..OracleMaxRetries,
                   baseDelay : {DefaultBaseDelay, OracleBaseDelay}]
    /\ PollerIdle

EntryOf(symbol) ==
    {i \in DOMAIN recommendations : recommendations[i].symbol = symbol}

\* analyzeSymbol up to its first await
AnalyzeSymbolStarts ==
    /\ flow.pc = "idle"
    /\ recommendations' = Replace(recommendations, Entry(AnalysisSymbol, <<>>, TRUE, Undef, Undef))
    /\ flow' = [flow EXCEPT !.pc = "bundle", !.symbol = AnalysisSymbol]
    /\ UNCHANGED <<ledgerVars, mtf, tz, args, config, monitor, results, batch>>

\* the outer catch
Fails ==
    /\ recommendations' = Update(recommendations, Entry(flow.symbol, ErrorText, FALSE, Undef, Undef))
    /\ flow' = [flow EXCEPT !.pc = "done"]

\* getMultiTimeframeData settles
BundleSettles(result) ==
    /\ flow.pc = "bundle"
    /\ IF ~result.ok THEN Fails
       ELSE IF config.version = "part_003" /\ result.value.status.isStale
       THEN /\ recommendations' =
                  Replace(recommendations, Entry(flow.symbol, StaleText, FALSE, Undef, Undef))
            /\ flow' = [flow EXCEPT !.pc = "done", !.status = Some(result.value.status)]
       ELSE /\ flow' = [flow EXCEPT
                           !.pc = "charts",
                           !.status = Some(result.value.status),
                           !.data = Some(IF config.version = "part_003"
                                         THEN result.value.data ELSE result.value)]
            /\ UNCHANGED recommendations
    /\ UNCHANGED <<ledgerVars, mtf, tz, args, config, monitor, results, batch>>

\* the last setRecommendations of the try block
Finishes(f, recommendation, parsedRecommendation) ==
    /\ recommendations' =
          Update(recommendations,
                 Entry(f.symbol, recommendation, FALSE, f.charts, parsedRecommendation))
    /\ flow' = [f EXCEPT !.pc = "done"]

\* fn() of retryWithBackoff: the next attempt sends its first request
Attempts(f) ==
    flow' = [f EXCEPT !.pc = "oracle", !.attempt = f.attempt + 1, !.error = Undef,
                      !.model = IF config.version = "part_003" THEN "o3" ELSE "gpt-4o",
                      !.requests = f.requests + 1]

\* generateMultiTimeframeCharts settles; without a key the demo text is shown,
\* with one the first request goes out
ChartsRendered ==
    LET f == [flow EXCEPT !.charts = Some(ChartsOf(Val(flow.data)))]
    IN  /\ flow.pc = "charts"
        /\ IF config.apiKey
           THEN Attempts(f) /\ UNCHANGED recommendations
           ELSE Finishes(f, DemoText, Undef)
        /\ UNCHANGED <<ledgerVars, mtf, tz, args, config, monitor, results, batch>>

\* the oracle's response to the request in flight arrives
OracleSettles(response) ==
    LET result == IF config.version = "part_003" THEN oracleRequest(response)
                  ELSE oracleRequest_tsx(response)
        thrown == [flow EXCEPT !.error = Some(result.error)]
    IN  /\ flow.pc = "oracle"
        /\ IF result.ok
           THEN Finishes(flow, result.value.recommendation, result.value.parsedRecommendation)
           ELSE IF config.version # "part_003"
           THEN Finishes(thrown, DemoText, Undef)
           ELSE IF flow.model = "o3" /\ ModelUnavailable(result.error)
           THEN /\ flow' = [flow EXCEPT !.model = "gpt-4o", !.requests = flow.requests + 1]
                /\ UNCHANGED recommendations
           ELSE IF flow.attempt # config.maxRetries /\ isRateLimit(result.error)
           THEN /\ flow' = [thrown EXCEPT
                               !.pc = "sleep",
                               !.slept = Append(flow.slept,
                                                Delay(config.baseDelay, flow.attempt))]
                /\ UNCHANGED recommendations
           ELSE Finishes(thrown, FallbackText(result.error), Undef)
        /\ UNCHANGED <<ledgerVars, mtf, tz, args, config, monitor, results, batch>>

\* await sleep(delay) is over
SleepEnds ==
    /\ flow.pc = "sleep"
    /\ Attempts(flow)
    /\ UNCHANGED <<ledgerVars, mtf, tz, args, config, recommendations, monitor, results, batch>>

\* the user closes the card of a symbol
closeRecommendation(symbol) ==
    LET Other(r) == r.symbol # symbol
    IN  /\ EntryOf(symbol) # {}
        /\ recommendations' = SelectSeq(recommendations, Other)
        /\ UNCHANGED <<ledgerVars, mtf, tz, args, config, flow, monitor, results, batch>>

NextAnalysis ==
    \/ AnalyzeSymbolStarts
    \/ \E result \in BundleResults : BundleSettles(result)
    \/ ChartsRendered
    \/ \E response \in OracleResponses : OracleSettles(response)
    \/ SleepEnds
    \/ closeRecommendation(AnalysisSymbol)

SpecAnalysis == InitAnalysis /\ [][NextAnalysis]_vars

\* what the flow awaits settles: the fetches resolve or reject, the timer fires
AnalysisProceeds ==
    \/ \E result \in BundleResults : BundleSettles(result)
    \/ ChartsRendered
    \/ \E response \in OracleResponses : OracleSettles(response)
    \/ SleepEnds

SpecAnalysisFair == SpecAnalysis /\ WF_vars(AnalysisProceeds)

----------------------------------------------------------------------------
(* The poller at work: its three methods called by any client, the timers    *)
(* firing as the clock advances, the quotes arriving, and the TradeResults    *)
(* view starting it in its effect and stopping it in the effect's cleanup     *)

MaxStarts == 2
MaxTicks == 2

MonitorSymbols == {"A", "B"}
Intervals == {TickMs, DefaultIntervalMs}

QuoteResponses ==
    {Undef,
     Some(Quote(TRUE, FALSE, Undef)),
     Some(Quote(FALSE, TRUE, Undef)),
     Some(Quote(FALSE, FALSE, Undef)),
     Some(Quote(FALSE, FALSE, Some(2)))}

\* the symbols of the confirmed active trades the view renders, in their order
ActiveSymbols == {<<>>, <<"A">>, <<"A", "B">>, <<"A", "A">>}

InitMonitor ==
    /\ LedgerIdle
    /\ now = 0
    /\ ServicesIdle

StartMonitoring(symbol, intervalMs) ==
    /\ Len(monitor.closures) < MaxStarts
    /\ monitor' = startMonitoring(monitor, symbol, intervalMs, now)
    /\ UNCHANGED <<ledgerVars, mtf, tz, args, recommendations, flow, config, results, batch>>

\* a client's call of stopMonitoring: the callback registered for the symbol is
\* marked as stopped
StopMonitoring(symbol) ==
    LET Mark(c) == IF c.symbol = symbol THEN [c EXCEPT !.stopped = TRUE] ELSE c
    IN  /\ symbol \in DOMAIN monitor.callbacks
        /\ monitor' = [stopMonitoring(monitor, symbol) EXCEPT
                          !.closures = [i \in DOMAIN @ |-> Mark(@[i])]]
        /\ UNCHANGED <<ledgerVars, mtf, tz, args, recommendations, flow, config, results, batch>>

StopAllMonitoring ==
    /\ monitor.closures # <<>>
    /\ monitor' = stopAllMonitoring(monitor)
    /\ UNCHANGED <<ledgerVars, mtf, tz, args, recommendations, flow, config, results, batch>>

\* an interval has elapsed: the host calls fetchPrice, which begins a fetch
TimerFires(id) ==
    /\ id \in DOMAIN monitor.timers
    /\ monitor.timers[id] = now
    /\ monitor' = [monitor EXCEPT
                      !.timers[id] = @ + monitor.closures[id].intervalMs,
                      !.closures[id].inflight = @ + 1]
    /\ UNCHANGED <<ledgerVars, mtf, tz, args, recommendations, flow, config, results, batch>>

\* a getQuickPrice call of closure id settles and fetchPrice runs to its end
FetchSettles(id, response) ==
    LET outcome == getQuickPrice(response)
        priced == outcome.ok /\ IsDef(outcome.value)
    IN  /\ id \in DOMAIN monitor.closures
        /\ monitor.closures[id].inflight > 0
        /\ monitor' = [monitor EXCEPT
                          !.closures[id].inflight = @ - 1,
                          !.settled = Some(Settled(priced, Invokes(outcome)))]
        /\ UNCHANGED <<ledgerVars, mtf, tz, args, recommendations, flow, config, results, batch>>

\* time passes, once the timers that are due have fired
TimePasses ==
    /\ now < MaxTicks * TickMs
    /\ \A id \in DOMAIN monitor.timers : monitor.timers[id] > now
    /\ now' = now + TickMs
    /\ UNCHANGED <<storage, trades, loaded, last, calls, returned, view, recs, conts,
                   svcVars>>

\* TradeResults is shown: its effect starts a poller for each active trade
ViewMounts(symbols) ==
    /\ results # "mounted"
    /\ Len(monitor.closures) + Len(symbols) <= MaxStarts
    /\ results' = "mounted"
    /\ monitor' = StartAll(monitor, symbols, now)
    /\ UNCHANGED <<ledgerVars, mtf, tz, args, recommendations, flow, config, batch>>

\* TradeResults renders again with new dependencies: the cleanup of the last
\* effect, then the effect
ViewRerenders(symbols) ==
    /\ results = "mounted"
    /\ Len(monitor.closures) + Len(symbols) <= MaxStarts
    /\ monitor' = StartAll(stopAllMonitoring(monitor), symbols, now)
    /\ UNCHANGED <<ledgerVars, mtf, tz, args, recommendations, flow, config, results, batch>>

\* TradeResults is left: the cleanup of its effect
ViewUnmounts ==
    /\ results = "mounted"
    /\ results' = "unmounted"
    /\ monitor' = stopAllMonitoring(monitor)
    /\ UNCHANGED <<ledgerVars, mtf, tz, args, recommendations, flow, config, batch>>

NextMonitor ==
    \/ \E symbol \in MonitorSymbols, intervalMs \in Intervals : StartMonitoring(symbol, intervalMs)
    \/ \E symbol \in MonitorSymbols : StopMonitoring(symbol)
    \/ StopAllMonitoring
    \/ \E id \in DOMAIN monitor.timers : TimerFires(id)
    \/ \E id \in DOMAIN monitor.closures, response \in QuoteResponses :
           FetchSettles(id, response)
    \/ TimePasses

SpecMonitor == InitMonitor /\ [][NextMonitor]_vars

\* the poller as the TradeResults view drives it, every start being one of its
\* effect's, while any client may stop what it started
NextResults ==
    \/ \E symbols \in ActiveSymbols : ViewMounts(symbols)
    \/ \E symbols \in ActiveSymbols : ViewRerenders(symbols)
    \/ ViewUnmounts
    \/ \E symbol \in MonitorSymbols : StopMonitoring(symbol)
    \/ StopAllMonitoring
    \/ \E id \in DOMAIN monitor.timers : TimerFires(id)
    \/ \E id \in DOMAIN monitor.closures, response \in QuoteResponses :
           FetchSettles(id, response)
    \/ TimePasses

SpecResults == InitMonitor /\ [][NextResults]_vars

----------------------------------------------------------------------------
(* Claims about the hook *)

LedgerCalls == {"confirmTrade", "updateTradePrice", "closeTrade"}

\* C1: over any sequence of confirmTrade, updateTradePrice and closeTrade calls a
\* trade's status only moves forward along pending -> confirmed -> closed.
C1_StatusOnlyMovesForward ==
    [][last' \in LedgerCalls =>
          \A i \in DOMAIN trades :
              /\ i \in DOMAIN trades'
              /\ Rank(trades'[i].status) >= Rank(trades[i].status)]_vars

\* C2: closedAt is set by the closeTrade call that closes the trade and is never
\* changed or cleared afterwards, also not by closing the trade again.
C2_ClosedAtSetOnce ==
    [][last' \in LedgerCalls =>
          \A i \in DOMAIN trades :
              /\ i \in DOMAIN trades'
              /\ IsDef(trades[i].closedAt) => trades'[i].closedAt = trades[i].closedAt
              /\ (~IsDef(trades[i].closedAt) /\ IsDef(trades'[i].closedAt)) =>
                    (last' = "closeTrade" /\ trades'[i].status = "closed")]_vars

C5_PnlIffBothPrices ==
    \A i \in DOMAIN trades :
        LET both == IsDef(trades[i].entryPrice) /\ IsDef(trades[i].currentPrice)
        IN  /\ IsDef(trades[i].pnl) <=> both
            /\ IsDef(trades[i].pnlPercentage) <=> both

\* C6: all trades of the collection have pairwise distinct ids.
C6_IdsPairwiseDistinct ==
    \A i, j \in DOMAIN trades : i # j => trades[i].id # trades[j].id

\* C7: confirmTrade appends exactly one trade, confirmed when an entryPrice is given
\* (0 included) and pending when none is, with currentPrice, pnl and closedAt unset.
C7_ConfirmAppendsOne ==
    [][last' = "confirmTrade" =>
          /\ Len(trades') = Len(trades) + 1
          /\ SubSeq(trades', 1, Len(trades)) = trades
          /\ LET new == trades'[Len(trades')]
             IN  /\ new.status = (IF IsDef(new.entryPrice) THEN "confirmed" ELSE "pending")
                 /\ ~IsDef(new.currentPrice)
                 /\ ~IsDef(new.pnl)
                 /\ ~IsDef(new.closedAt)]_vars

ExpectedPnl(action, currentPrice, entryPrice) ==
    IF action.optionType = "call"
    THEN Max(0, currentPrice - action.strikePrice) - entryPrice
    ELSE Max(0, action.strikePrice - currentPrice) - entryPrice

\* C8: a trade that updateTradePrice has priced and that has an entryPrice and an
\* action carries pnl = max(0, +-(currentPrice - strikePrice)) - entryPrice and
\* pnlPercentage = pnl / entryPrice * 100, which is 0 when entryPrice is 0.
C8_PnlFormula ==
    \A i \in DOMAIN trades :
        LET t == trades[i]
        IN  (IsDef(t.currentPrice) /\ IsDef(t.entryPrice) /\ IsDef(t.recommendation.action)) =>
                LET pnl == ExpectedPnl(Val(t.recommendation.action), Val(t.currentPrice),
                                       Val(t.entryPrice))
                IN  /\ t.pnl = Some(pnl)
                    /\ t.pnlPercentage =
                          Some(IF Val(t.entryPrice) = 0 THEN Whole(0)
                               ELSE Frac(pnl * 100, Val(t.entryPrice)))

----------------------------------------------------------------------------
(* Claims about the queries *)

PnlPositive(ts) == {i \in DOMAIN ts : IsDef(ts[i].pnl) /\ Val(ts[i].pnl) > 0}

\* C9: getTradeHistory returns totalTrades = the number of trades (closed ones
\* included), successfulTrades = the number of trades with pnl defined and > 0, and
\* successRate = successfulTrades / totalTrades * 100, 0 for an empty collection; so
\* successfulTrades <= totalTrades and 0 <= successRate <= 100.
C9_TradeHistory ==
    (last = "getTradeHistory") =>
        LET h == Val(returned)
            n == Cardinality(PnlPositive(trades))
        IN  /\ h.trades = trades
            /\ h.totalTrades = Len(trades)
            /\ h.successfulTrades = n
            /\ h.successRate.den > 0
            /\ h.successRate.num * Len(trades) = n * 100 * h.successRate.den
            /\ Len(trades) = 0 => h.successRate.num = 0
            /\ h.successfulTrades <= h.totalTrades
            /\ 0 <= h.successRate.num
            /\ h.successRate.num <= 100 * h.successRate.den

\* C9 witness: the history of three trades with pnl +3, -2 and undefined reports
\* 3 trades, 1 successful, a success rate of 100/3 percent.
C9_Witness ==
    /\ last = "getTradeHistory"
    /\ Len(trades) = 3
    /\ trades[1].pnl = Some(3)
    /\ trades[2].pnl = Some(-2)
    /\ trades[3].pnl = Undef
    /\ Val(returned).totalTrades = 3
    /\ Val(returned).successfulTrades = 1
    /\ Val(returned).successRate = [num |-> 100, den |-> 3]

----------------------------------------------------------------------------
(* Claims about the views *)

StoredTrades == IF IsDef(storage) THEN LoadTrades(Val(storage)) ELSE <<>>

OpenFor(ts, symbol) == {i \in DOMAIN ts : ts[i].symbol = symbol /\ ts[i].status # "closed"}

\* every trade of old is a trade of new, and a trade priced in old is priced in new
KeepsAll(old, new) ==
    \A i \in DOMAIN old : \E j \in DOMAIN new :
        /\ new[j].id = old[i].id
        /\ IsDef(old[i].currentPrice) => IsDef(new[j].currentPrice)

\* C3: no earlier mutation is lost, whatever the interleaving of the handlers: a
\* trade added by confirmTrade stays in the persisted and in the in-memory
\* collection, and a price written to a trade is not undone by a later update.
C3_NoMutationLost ==
    [][/\ KeepsAll(StoredTrades, StoredTrades')
       /\ (loaded /\ loaded') => KeepsAll(trades, trades')]_vars

\* C10: getTradeBySymbol returns the first trade of the symbol that is not closed,
\* and the ledger, in memory and in storage, never holds two trades of one symbol
\* that are not closed.
C10_OneOpenTradePerSymbol ==
    \A s \in Symbols :
        /\ Cardinality(OpenFor(trades, s)) <= 1
        /\ Cardinality(OpenFor(StoredTrades, s)) <= 1
        /\ getTradeBySymbol(trades, s) =
              (IF OpenFor(trades, s) = {} THEN Undef
               ELSE Some(trades[CHOOSE i \in OpenFor(trades, s) :
                                   \A j \in OpenFor(trades, s) : i <= j]))

----------------------------------------------------------------------------
(* Claims about the data pipeline *)

\* C11: the three primary requests are in flight together; the bundle is built from
\* the primary series only once all three have fulfilled; and as soon as one of them
\* has rejected, a bundle that is returned is built, all six series and the status,
\* from the secondary provider's daily series.
C11_AllOrFallback ==
    /\ mtf.pc = "primary" =>
          /\ mtf.rejected = {}
          /\ mtf.pending \cup DOMAIN mtf.got = PrimaryRequests
          /\ mtf.pending # {}
    /\ (mtf.pc = "returned" /\ mtf.rejected = {}) =>
          /\ DOMAIN mtf.got = PrimaryRequests
          /\ Val(mtf.result) =
                [data |-> Windows(mtf.got.daily.data, mtf.got.weekly, mtf.got.monthly, now),
                 status |-> QuoteStatus(mtf.got.daily.lastRefreshed, now)]
    /\ (mtf.pc = "returned" /\ mtf.rejected # {}) =>
          /\ IsDef(mtf.yahooData)
          /\ LET daily == Val(mtf.yahooData).data
             IN  Val(mtf.result) =
                   [data |-> Windows(daily, generateWeeklyFromDaily(daily, tz),
                                     generateMonthlyFromDaily(daily, tz), now),
                    status |-> QuoteStatus(Val(mtf.yahooData).lastRefreshed, now)]

\* C11 witness: only the weekly request failed, the daily series of the primary
\* provider had arrived, and the bundle returned holds the secondary's points.
C11_Witness ==
    /\ mtf.pc = "returned"
    /\ mtf.rejected = {"weekly"}
    /\ "daily" \in DOMAIN mtf.got
    /\ mtf.got.daily.data # <<>>
    /\ Len(Val(mtf.result).data.day) = 2
    /\ Val(mtf.result).data.day = Val(mtf.yahooData).data

\* C12: a bundle that is returned has six non-empty series, and after a primary
\* failure a bundle is returned only if the secondary gave at least one point.
C12_NoEmptySeries ==
    mtf.pc = "returned" =>
        /\ \A key \in BundleKeys : Val(mtf.result).data[key] # <<>>
        /\ mtf.rejected # {} => (IsDef(mtf.yahooData) /\ Val(mtf.yahooData).data # <<>>)

\* the latest weekday strictly before day d
PreviousTradingDay(d) ==
    IF getUTCDay(d) = 1 THEN d - 3 ELSE IF getUTCDay(d) = 0 THEN d - 2 ELSE d - 1

\* d itself on a weekday, the Friday before on Saturday and Sunday
LatestWeekday(d) ==
    IF getUTCDay(d) = 6 THEN d - 1 ELSE IF getUTCDay(d) = 0 THEN d - 2 ELSE d

\* C13: in both versions of isDataStale, the result is true exactly when the date
\* of lastRefreshed is earlier than the most recently completed trading day: the
\* preceding Friday when now is a Saturday, a Sunday or (last Friday's data is not
\* stale on the following Monday) a Monday; on the other weekdays a date before
\* the previous trading day is stale and a stale date is before today.
C13_StaleIffBeforeTradingDay ==
    last \in {"isDataStale", "isDataStale_008"} =>
        LET today == now \div HalfDaysPerDay
            lastDay == DaysFromCivil(SplitSpace(Val(args)))
            earliest == PreviousTradingDay(today)
            latest == IF getUTCDay(today) = 1 THEN earliest ELSE LatestWeekday(today)
        IN  /\ lastDay < earliest => Val(returned)
            /\ Val(returned) => lastDay < latest

\* C20: the volumes of the buckets returned by generateWeeklyFromDaily add up
\* to the sum of the daily volumes, and so do those of generateMonthlyFromDaily.
C20_VolumePreserved ==
    last \in {"generateWeeklyFromDaily", "generateMonthlyFromDaily"} =>
        SumVolume(Val(returned)) = SumVolume(Val(args))

\* three days in two buckets, one of them of two days
C20_Witness ==
    /\ last \in {"generateWeeklyFromDaily", "generateMonthlyFromDaily"}
    /\ Len(Val(args)) = 3
    /\ Len(Val(returned)) = 2
    /\ SumVolume(Val(returned)) = SumVolume(Val(args))

----------------------------------------------------------------------------
(* Claims about the analysis flow *)

StaleEntry == Entry(flow.symbol, StaleText, FALSE, Undef, Undef)

\* C14: when the bundle fetched for a symbol is stale, analyzeSymbol ends at once
\* with a non-loading entry carrying the staleness message, renders no charts and
\* sends no request to the oracle; a request only follows a bundle that is not stale.
C14_StalenessGate ==
    [][(IsDef(flow'.status) /\ Val(flow'.status).isStale) =>
           /\ flow'.requests = 0
           /\ flow'.charts = Undef
           /\ flow'.pc = "done"
           /\ flow.pc = "bundle" =>
                  \E i \in DOMAIN recommendations' : recommendations'[i] = StaleEntry']_vars

\* the entries of the symbol under analysis
EntriesOfFlow(list) == {list[i] : i \in {j \in DOMAIN list : list[j].symbol = AnalysisSymbol}}

TechnicalSummaries ==
    {<<"TECHNICAL ANALYSIS (RATE LIMITED)">>, <<"TECHNICAL ANALYSIS (FALLBACK MODE)">>}

\* C18: retryWithBackoff(fn, maxRetries, baseDelay) calls fn at most maxRetries
\* times and waits baseDelay * 2^(k-1) between attempt k and attempt k+1; an
\* error of fn is followed by a wait and a further attempt only if it is a
\* rate-limit error below the cap, and is rethrown at once otherwise; the entry
\* gets the fallback summary of the rethrown error, and only then.
C18_RetryPolicy ==
    [][config.version = "part_003" =>
           /\ flow'.attempt <= config.maxRetries
           /\ \A k \in DOMAIN flow'.slept : flow'.slept[k] = config.baseDelay * 2 ^ (k - 1)
           /\ (flow'.attempt > flow.attempt /\ flow.attempt > 0) =>
                  /\ flow.pc = "sleep"
                  /\ Len(flow.slept) = flow.attempt
           /\ (flow.pc = "oracle" /\ IsDef(flow'.error)) =>
                  IF isRateLimit(Val(flow'.error)) /\ flow.attempt < config.maxRetries
                  THEN /\ flow'.pc = "sleep"
                       /\ Len(flow'.slept) = flow.attempt
                       /\ flow'.requests = flow.requests
                       /\ recommendations' = recommendations
                  ELSE /\ flow'.pc = "done"
                       /\ flow'.requests = flow.requests
                       /\ flow'.slept = flow.slept
                       /\ \A entry \in EntriesOfFlow(recommendations') :
                              entry.recommendation = FallbackText(Val(flow'.error))
           /\ (flow.pc # "done" /\ flow'.pc = "done"
                   /\ \E entry \in EntriesOfFlow(recommendations') :
                          entry.recommendation \in TechnicalSummaries) =>
                  /\ IsDef(flow'.error)
                  /\ flow'.attempt = config.maxRetries \/ ~isRateLimit(Val(flow'.error))]_vars

\* every attempt of the call site's three was rate limited: two waits of 2000
\* and 4000 ms, then the rate-limit summary
C18_Witness ==
    /\ config.version = "part_003"
    /\ config.maxRetries = OracleMaxRetries
    /\ config.baseDelay = OracleBaseDelay
    /\ flow.pc = "done"
    /\ flow.attempt = OracleMaxRetries
    /\ flow.slept = <<2000, 4000>>
    /\ flow.error = Some("rate_limit_exceeded")
    /\ \E entry \in EntriesOfFlow(recommendations) :
           /\ ~entry.loading
           /\ entry.recommendation = <<"TECHNICAL ANALYSIS (RATE LIMITED)">>

FreshBundle == IsDef(flow.status) /\ ~Val(flow.status).isStale

\* C19: once a bundle that is not stale is in, analyzeSymbol ends whatever the
\* oracle answers, after at most two requests for each of the maxRetries attempts,
\* and when it ends the entry of the symbol (if the user has not closed it) is
\* not loading and has a non-empty text.
C19_OracleErrorsAbsorbed ==
    /\ [](flow.requests <= 2 * config.maxRetries)
    /\ [][(FreshBundle /\ flow.pc # "done" /\ flow'.pc = "done") =>
              /\ EntriesOfFlow(recommendations) # {} => EntriesOfFlow(recommendations') # {}
              /\ \A entry \in EntriesOfFlow(recommendations') :
                     ~entry.loading /\ entry.recommendation # <<>>]_vars
    /\ FreshBundle ~> (flow.pc = "done")

\* the model was missing and the second request rate limited in every attempt
C19_Witness ==
    /\ FreshBundle
    /\ flow.pc = "done"
    /\ flow.requests = 2 * OracleMaxRetries
    /\ \E entry \in EntriesOfFlow(recommendations) :
           ~entry.loading /\ entry.recommendation # <<>>

----------------------------------------------------------------------------
(* Claims about the price poller *)

\* closure id began a getQuickPrice call in this step
Fetches(id) ==
    /\ id \in DOMAIN monitor.closures
    /\ monitor'.closures[id].inflight > monitor.closures[id].inflight

\* a getQuickPrice call of closure id settled in this step
Settles(id) ==
    /\ id \in DOMAIN monitor.closures
    /\ monitor'.closures[id].inflight < monitor.closures[id].inflight

\* C15: a startMonitoring call begins one fetch at once and sets the timer one
\* interval ahead; a further fetch of a closure begins exactly when its timer,
\* still scheduled, is due, which is every intervalMs since the start, and no
\* due time passes without it; a fetch that settles invokes the callback exactly
\* when it gave a price, and leaves every timer as it was.
C15_FetchSchedule ==
    [][/\ \A id \in DOMAIN monitor'.closures \ DOMAIN monitor.closures :
              LET c == monitor'.closures[id]
              IN  /\ c.inflight = 1
                  /\ c.since = now
                  /\ id \in DOMAIN monitor'.timers
                  /\ monitor'.timers[id] = now + c.intervalMs
       /\ \A id \in DOMAIN monitor.closures :
              LET c == monitor.closures[id]
              IN  /\ Fetches(id) =>
                         /\ monitor'.closures[id].inflight = c.inflight + 1
                         /\ id \in DOMAIN monitor.timers
                         /\ monitor.timers[id] = now
                         /\ monitor'.timers[id] = now + c.intervalMs
                  /\ Settles(id) =>
                         /\ monitor'.timers = monitor.timers
                         /\ IsDef(monitor'.settled)
                         /\ Val(monitor'.settled).invoked = Val(monitor'.settled).priced
       /\ \A id \in DOMAIN monitor'.timers :
              LET c == monitor'.closures[id]
              IN  /\ (monitor'.timers[id] - c.since) % c.intervalMs = 0
                  /\ now' <= monitor'.timers[id]
                  /\ monitor'.timers[id] <= now' + c.intervalMs]_vars

\* a fetch of the only closure failed, and its timer has fired since the start
\* and is still scheduled, with a fetch in flight
C15_Witness ==
    \E id \in DOMAIN monitor.timers :
        LET c == monitor.closures[id]
        IN  /\ Len(monitor.closures) = 1
            /\ monitor.settled = Some(Settled(FALSE, FALSE))
            /\ monitor.timers[id] >= c.since + 2 * c.intervalMs
            /\ c.inflight > 0

\* C16: once a client's stopMonitoring(symbol) has returned, the callback that
\* was registered for the symbol is not invoked until startMonitoring is called
\* for the symbol again.
C16_NoCallbackAfterStop ==
    [][\A id \in DOMAIN monitor.closures :
           (Settles(id) /\ Val(monitor'.settled).invoked) => ~monitor.closures[id].stopped]_vars

NothingScheduled(m) ==
    /\ m.timers = EmptyMap
    /\ m.intervals = EmptyMap
    /\ m.callbacks = EmptyMap

\* C17: a stopAllMonitoring call leaves no timer scheduled and no callback
\* registered, whatever was started and stopped before, and while the
\* TradeResults view is not shown no timer of the poller is scheduled.
C17_StopAllLeavesNothing ==
    /\ [](results # "mounted" => NothingScheduled(monitor))
    /\ [][StopAllMonitoring => NothingScheduled(monitor')]_vars

\* the view has been left after its effect had started pollers twice
C17_Witness ==
    /\ results = "unmounted"
    /\ Len(monitor.closures) >= 2
    /\ \E id \in DOMAIN monitor.closures : monitor.closures[id].inflight > 0
    /\ NothingScheduled(monitor)

----------------------------------------------------------------------------
(* The indicator engine.  Closes, highs, lows and volumes are integers and a *)
(* quotient is an exact fraction in lowest terms.                            *)

RsiPeriod == 14

RatAdd(a, b) == Frac(a.num * b.den + b.num * a.den, a.den * b.den)
RatSub(a, b) == Frac(a.num * b.den - b.num * a.den, a.den * b.den)

\* a / b for b > 0
RatDiv(a, b) == Frac(a.num * b.den, a.den * b.num)

RatLess(a, b) == a.num * b.den < b.num * a.den

\* data.slice(0, n)
SliceFirst(series, n) == IF Len(series) <= n THEN series ELSE SubSeq(series, 1, n)

\* the sums of the up-moves and of the down-moves of consecutive closes
\* prices[i].close - prices[i - 1].close in the code's 0-based loop from 1
Change(prices, i) == prices[i + 1].close - prices[i].close

Gains(prices) ==
    SumRange([i \in 1..(Len(prices) - 1) |->
                 IF Change(prices, i) > 0 THEN Change(prices, i) ELSE 0],
             1, Len(prices) - 1)

Losses(prices) ==
    SumRange([i \in 1..(Len(prices) - 1) |->
                 IF Change(prices, i) > 0 THEN 0 ELSE Abs(Change(prices, i))],
             1, Len(prices) - 1)

\* the moves of the whole series instead of its last period + 1 closes
calculateRSI_WholeSeries(data, period) ==
    IF Len(data) < period + 1 THEN Whole(50)
    ELSE LET avgGain == Frac(Gains(data), period)
             avgLoss == Frac(Losses(data), period)
         IN  IF avgLoss = Whole(0) THEN Whole(100)
             ELSE RatSub(Whole(100),
                         RatDiv(Whole(100), RatAdd(Whole(1), RatDiv(avgGain, avgLoss))))

calculateRSI(data, period) ==
    IF Len(data) < period + 1 THEN Whole(50)
    ELSE LET prices == SliceLast(data, period + 1)
             avgGain == Frac(Gains(prices), period)
             avgLoss == Frac(Losses(prices), period)
         IN  IF avgLoss = Whole(0) THEN Whole(100)
             ELSE RatSub(Whole(100),
                         RatDiv(Whole(100), RatAdd(Whole(1), RatDiv(avgGain, avgLoss))))

\* what the loop of calculateOBV adds at the point of index i >= 2
ObvStep(data, i) ==
    IF data[i].close > data[i - 1].close THEN data[i].volume
    ELSE IF data[i].close < data[i - 1].close THEN -data[i].volume
    ELSE 0

\* the entry at index k: the seed and the steps of the loop up to k
ObvAt(data, k) ==
    SumRange([i \in 1..k |-> IF i = 1 THEN 0 ELSE ObvStep(data, i)], 1, k)

\* const obv = [0], then one push for every point after the first: the array
\* holds its seed before the loop looks at the series
calculateOBV(data) == [k \in 1..(1 + Max(Len(data) - 1, 0)) |-> ObvAt(data, k)]

SumClose(points) ==
    SumRange([i \in 1..Len(points) |-> points[i].close], 1, Len(points))

\* data[data.length - 1]?.close || 0 below the period
calculateSMA(data, period) ==
    IF Len(data) < period
    THEN Whole(IF data = <<>> THEN 0 ELSE data[Len(data)].close)
    ELSE Frac(SumClose(SliceLast(data, period)), period)

\* recentVolume > avgVolume * 1.5 and recentVolume < avgVolume * 0.5 with
\* avgVolume = sum / length, cleared of the quotients
calculateVolumeAnalysis(data) ==
    IF Len(data) < 10
    THEN [avgVolume |-> Whole(0), recentVolume |-> 0, volumeTrend |-> "insufficient data"]
    ELSE LET sum == SumVolume(data)
             recentVolume == data[Len(data)].volume
         IN  [avgVolume |-> Frac(sum, Len(data)),
              recentVolume |-> recentVolume,
              volumeTrend |-> IF 2 * recentVolume * Len(data) > 3 * sum THEN "high"
                              ELSE IF 2 * recentVolume * Len(data) < sum THEN "low"
                              ELSE "normal"]

\* the true range of the point at index i >= 2
TrueRange(data, i) ==
    Max(data[i].high - data[i].low,
        Max(Abs(data[i].high - data[i - 1].close), Abs(data[i].low - data[i - 1].close)))

SumTrueRange(data, from, to) ==
    SumRange([i \in from..to |-> TrueRange(data, i)], from, to)

\* the mean of the last period true ranges
calculateATR(data, period) ==
    IF Len(data) < period + 1 THEN Whole(0)
    ELSE Frac(SumTrueRange(data, Len(data) - period + 1, Len(data)), period)

\* value.toFixed(digits): the decimal nearest to the value, ties away from zero
toFixed(value, digits) ==
    LET scale == 10 ^ digits
        magnitude == (2 * Abs(value.num) * scale + value.den) \div (2 * value.den)
    IN  [scaled |-> IF value.num < 0 THEN -magnitude ELSE magnitude, digits |-> digits]

\* the text of one field of the summary line: a number, words, or both
Text(number, words) == [number |-> number, words |-> words]
Part(label, text) == [label |-> label, text |-> text]
Line(timeframe, note, fields) == [timeframe |-> timeframe, note |-> note, fields |-> fields]

Overbought(rsi) ==
    IF RatLess(Whole(70), rsi) THEN "overbought"
    ELSE IF RatLess(rsi, Whole(30)) THEN "oversold" ELSE "neutral"

\* calculateMACD's exponential averages (multipliers 2/13, 2/27 and 2/10 over
\* the whole series) are not computed: the field holds the call that yields
\* its number and its relation to the signal line
MacdText == Text(Some([call |-> "calculateMACD", digits |-> 2]), "signal")

ObvSignal(obvValues) ==
    IF Len(obvValues) >= 2
    THEN IF obvValues[Len(obvValues)] > obvValues[Len(obvValues) - 1] THEN "rising"
         ELSE IF obvValues[Len(obvValues)] < obvValues[Len(obvValues) - 1] THEN "falling"
         ELSE "flat"
    ELSE "insufficient data"

generateTechnicalAnalysis(data, timeframe) ==
    IF Len(data) < 2
    THEN Line(timeframe, "Insufficient data for technical analysis", <<>>)
    ELSE LET currentPrice == data[Len(data)].close
             rsiValue == IF Len(data) >= 15 THEN Some(calculateRSI(data, RsiPeriod)) ELSE Undef
             rsiSignal == IF rsiValue = Undef THEN Text(Undef, "insufficient data")
                          ELSE Text(Some(toFixed(Val(rsiValue), 1)), Overbought(Val(rsiValue)))
             sma50 == IF Len(data) >= 50 THEN Some(calculateSMA(data, 50)) ELSE Undef
             sma200 == IF Len(data) >= 200 THEN Some(calculateSMA(data, 200)) ELSE Undef
             smaSignal == IF sma50 = Undef THEN "SMA50 insufficient data"
                          ELSE IF RatLess(Val(sma50), Whole(currentPrice)) THEN "above SMA50"
                          ELSE "below SMA50"
             trendSignal == IF sma50 = Undef \/ sma200 = Undef THEN "trend insufficient data"
                            ELSE IF RatLess(Val(sma200), Val(sma50)) THEN "uptrend"
                            ELSE "downtrend"
             macdSignal == IF Len(data) >= 35 THEN MacdText ELSE Text(Undef, "insufficient data")
             obvSignal == ObvSignal(calculateOBV(data))
             atrText == IF Len(data) >= 15
                        THEN Text(Some(toFixed(calculateATR(data, RsiPeriod), 2)), "")
                        ELSE Text(Undef, "insufficient data")
             volumeAnalysis == calculateVolumeAnalysis(data)
         IN  Line(timeframe, "",
                  <<Part("Price", Text(Some(toFixed(Whole(currentPrice), 2)), "")),
                    Part("RSI", rsiSignal),
                    Part("SMA50", Text(Undef, smaSignal)),
                    Part("Trend", Text(Undef, trendSignal)),
                    Part("MACD", macdSignal),
                    Part("OBV", Text(Undef, obvSignal)),
                    Part("ATR", atrText),
                    Part("Volume", Text(Undef, volumeAnalysis.volumeTrend))>>)

\* part_008: recentChange of calculateTrendDirection, in percent
Momentum(data) ==
    LET recent == SliceLast(data, 5)
    IN  Frac((recent[Len(recent)].close - recent[1].close) * 100, recent[1].close)

\* part_008: one guard for the whole line and no guard per field
generateTechnicalAnalysis_008(data, timeframe) ==
    IF Len(data) < 20
    THEN Line(timeframe, "Insufficient data for technical analysis", <<>>)
    ELSE LET rsi == calculateRSI(data, RsiPeriod)
             sma20 == calculateSMA(data, 20)
             sma50 == calculateSMA(data, IF Len(data) < 50 THEN Len(data) ELSE 50)
             currentPrice == data[Len(data)].close
             volumeAnalysis == calculateVolumeAnalysis(data)
         IN  Line(timeframe, "",
                  <<Part("Price", Text(Some(toFixed(Whole(currentPrice), 2)), "")),
                    Part("RSI", Text(Some(toFixed(rsi, 1)), Overbought(rsi))),
                    Part("SMA20", Text(Undef, IF RatLess(sma20, Whole(currentPrice))
                                              THEN "above SMA20" ELSE "below SMA20")),
                    Part("Trend", Text(Undef, IF RatLess(sma50, sma20)
                                              THEN "uptrend" ELSE "downtrend")),
                    Part("Volume", Text(Undef, volumeAnalysis.volumeTrend)),
                    Part("Momentum", Text(Some(toFixed(Momentum(data), 1)), "%"))>>)

----------------------------------------------------------------------------
(* The indicator functions called on series of the lengths at which their    *)
(* guards switch                                                             *)

MaxTail == 2

BaseClose == 10
Closes == {8, 10, 12}

\* the lengths around the minimum of every field of the summary line
Lengths == {0, 1, 2, 9, 10, 14, 15, 16, 19, 20, 34, 35, 49, 50, 199, 200}
ShortLengths == {n \in Lengths : n <= 20}

\* the day before the first point of a series
SeriesStart == DaysFromCivil(<<2024, 1, 1>>)

\* the days of a series are consecutive; a point's range is one around its close
DayPoint(i, close) == Point(CivilFromDays(SeriesStart + i), close, close + 1, close - 1, close, 5)

RECURSIVE Tails(_)
Tails(n) ==
    IF n = 0 THEN {<<>>}
    ELSE {Append(t, close) : t \in Tails(n - 1), close \in Closes}

\* n points: the first close, then BaseClose, then the closes of the tail
SeriesOf(n, first, tail) ==
    [i \in 1..n |->
        DayPoint(i, IF i > n - Len(tail) THEN tail[i - (n - Len(tail))]
                    ELSE IF i = 1 THEN first ELSE BaseClose)]

Rising(n) == [i \in 1..n |-> DayPoint(i, BaseClose + i)]
Falling(n) == [i \in 1..n |-> DayPoint(i, BaseClose + 20 - i)]

IndicatorSeries ==
    UNION {{SeriesOf(n, first, tail) :
                first \in Closes, tail \in Tails(IF n - 1 < MaxTail THEN Max(n - 1, 0) ELSE MaxTail)} :
               n \in Lengths}
    \cup {Rising(n) : n \in ShortLengths} \cup {Falling(n) : n \in ShortLengths}

InitIndicators ==
    /\ LedgerIdle
    /\ now = 0
    /\ mtf = MtfIdle
    /\ tz = 0
    /\ args \in {Some(data) : data \in IndicatorSeries}
    /\ AnalysisIdle
    /\ PollerIdle

CalculateRSICall ==
    /\ last = "mount"
    /\ last' = "calculateRSI"
    /\ returned' = Some(calculateRSI(Val(args), RsiPeriod))
    /\ UNCHANGED <<storage, trades, loaded, now, calls, appVars, svcVars>>

CalculateOBVCall ==
    /\ last = "mount"
    /\ last' = "calculateOBV"
    /\ returned' = Some(calculateOBV(Val(args)))
    /\ UNCHANGED <<storage, trades, loaded, now, calls, appVars, svcVars>>

Timeframes == {"Day", "Year"}

GenerateTechnicalAnalysisCall ==
    /\ last = "mount"
    /\ last' = "generateTechnicalAnalysis"
    /\ \E timeframe \in Timeframes :
            returned' = Some(generateTechnicalAnalysis(Val(args), timeframe))
    /\ UNCHANGED <<storage, trades, loaded, now, calls, appVars, svcVars>>

GenerateTechnicalAnalysis008Call ==
    /\ last = "mount"
    /\ last' = "generateTechnicalAnalysis_008"
    /\ \E timeframe \in Timeframes :
            returned' = Some(generateTechnicalAnalysis_008(Val(args), timeframe))
    /\ UNCHANGED <<storage, trades, loaded, now, calls, appVars, svcVars>>

NextIndicators ==
    \/ CalculateRSICall
    \/ CalculateOBVCall
    \/ GenerateTechnicalAnalysisCall
    \/ GenerateTechnicalAnalysis008Call

SpecIndicators == InitIndicators /\ [][NextIndicators]_vars

----------------------------------------------------------------------------
(* The three fetchers of the primary provider called on one payload each     *)

IngestEntries ==
    {Point(<<2024, 1, 5>>, 1, 3, 1, 2, 10), Point(<<2023, 9, 29>>, 1, 3, 1, 2, 10),
     Point(<<2024, 1, 4>>, 2, 4, 1, 3, 7)}

\* a payload may carry an error message or a note next to a time series
IngestPayloads ==
    {Undef}
    \cup {Some(Payload(errorMessage, note, timeSeries, lastRefreshed)) :
              errorMessage \in BOOLEAN, note \in BOOLEAN,
              timeSeries \in {Undef} \cup {Some(entries) : entries \in SUBSET IngestEntries},
              lastRefreshed \in {<<>>, <<2024, 1, 5, 16>>}}

InitIngest ==
    /\ LedgerIdle
    /\ now = 0
    /\ mtf = MtfIdle
    /\ tz = 0
    /\ args \in IngestPayloads
    /\ AnalysisIdle
    /\ PollerIdle

FetchDailyDataCall ==
    /\ last = "mount"
    /\ last' = "fetchDailyData"
    /\ returned' = Some(fetchDailyData(args))
    /\ UNCHANGED <<storage, trades, loaded, now, calls, appVars, svcVars>>

FetchWeeklyDataCall ==
    /\ last = "mount"
    /\ last' = "fetchWeeklyData"
    /\ returned' = Some(fetchWeeklyData(args))
    /\ UNCHANGED <<storage, trades, loaded, now, calls, appVars, svcVars>>

FetchMonthlyDataCall ==
    /\ last = "mount"
    /\ last' = "fetchMonthlyData"
    /\ returned' = Some(fetchMonthlyData(args))
    /\ UNCHANGED <<storage, trades, loaded, now, calls, appVars, svcVars>>

NextIngest ==
    \/ FetchDailyDataCall
    \/ FetchWeeklyDataCall
    \/ FetchMonthlyDataCall

SpecIngest == InitIngest /\ [][NextIngest]_vars

----------------------------------------------------------------------------
(* analyzeAllSymbols: the button, the loop over the symbols and the pause     *)
(* between two of them, around the steps of analyzeSymbol                     *)

MaxRuns == 2

SymbolLists == {<<>>, <<"A">>, <<"A", "B">>}

\* what the oracle may answer in these runs
BatchResponses ==
    {Undef,
     Some(Response(FALSE, 429, Undef, Undef)),
     Some(Response(TRUE, 200, Undef, Some(Some(Content(<<"{json}">>, Some(CallRec))))))}

\* await sleep(3000) in part_003, setTimeout(resolve, 12000) in OptionsAnalysis.tsx
InterSymbolDelay(version) == IF version = "part_003" THEN 3000 ELSE 12000

InitAll ==
    /\ LedgerIdle
    /\ now = 0
    /\ mtf = MtfIdle
    /\ tz = 0
    /\ args \in {Some(symbols) : symbols \in SymbolLists}
    /\ recommendations = <<>>
    /\ flow = FlowIdle
    /\ batch = BatchIdle
    /\ config \in [version : Versions, apiKey : BOOLEAN,
                   maxRetries : {OracleMaxRetries}, baseDelay : {OracleBaseDelay}]
    /\ PollerIdle

\* a pause follows every symbol, the last one too
Pauses_AfterEvery(i, symbols) == TRUE

\* if (i < symbols.length - 1), i counted from 0
Pauses(i, symbols) == i < Len(symbols) - 1

\* the button is rendered: !isAnalyzing && recommendations.length === 0
ButtonShown == ~batch.isAnalyzing /\ recommendations = <<>>

\* setCurrentSymbolIndex(i) and analyzeSymbol(symbols[i]) up to its first await,
\* on the entries the loop sees
LoopAnalyzes(b, entries, i) ==
    LET symbol == Val(args)[i + 1]
    IN  /\ batch' = [b EXCEPT !.pc = "analyzing", !.currentSymbolIndex = i,
                              !.started = Append(b.started, symbol)]
        /\ recommendations' = Replace(entries, Entry(symbol, <<>>, TRUE, Undef, Undef))
        /\ flow' = [FlowIdle EXCEPT !.pc = "bundle", !.symbol = symbol]

\* the loop is left: setIsAnalyzing(false)
LoopEnds(b) ==
    /\ batch' = [b EXCEPT !.pc = "idle", !.isAnalyzing = FALSE]
    /\ UNCHANGED flow

\* a click on the button: analyzeAllSymbols up to its first await.  A click
\* while a loop is still running would start a second loop next to it.
AnalyzeAllSymbols ==
    LET b == [batch EXCEPT !.isAnalyzing = TRUE, !.started = <<>>, !.slept = <<>>,
                           !.runs = batch.runs + 1,
                           !.overlap = batch.overlap \/ batch.pc # "idle"]
    IN  /\ ButtonShown
        /\ batch.runs < MaxRuns
        /\ IF Len(Val(args)) > 0
           THEN LoopAnalyzes(b, <<>>, 0)
           ELSE LoopEnds(b) /\ recommendations' = <<>>
        /\ UNCHANGED <<ledgerVars, mtf, tz, args, config, monitor, results>>

\* await analyzeSymbol(symbols[i]) is over
AnalysisReturns ==
    /\ batch.pc = "analyzing"
    /\ flow.pc = "done"
    /\ IF Pauses(batch.currentSymbolIndex, Val(args))
       THEN /\ batch' = [batch EXCEPT !.pc = "sleeping",
                                      !.slept = Append(batch.slept,
                                                       InterSymbolDelay(config.version))]
            /\ UNCHANGED flow
       ELSE LoopEnds(batch)
    /\ UNCHANGED <<ledgerVars, mtf, tz, args, config, recommendations, monitor, results>>

\* the pause is over: i++ and the test of the for loop
PauseEnds ==
    /\ batch.pc = "sleeping"
    /\ IF batch.currentSymbolIndex + 1 < Len(Val(args))
       THEN LoopAnalyzes(batch, recommendations, batch.currentSymbolIndex + 1)
       ELSE LoopEnds(batch) /\ UNCHANGED recommendations
    /\ UNCHANGED <<ledgerVars, mtf, tz, args, config, monitor, results>>

NextAll ==
    \/ AnalyzeAllSymbols
    \/ AnalysisReturns
    \/ PauseEnds
    \/ \E result \in BundleResults : BundleSettles(result)
    \/ ChartsRendered
    \/ \E response \in BatchResponses : OracleSettles(response)
    \/ SleepEnds
    \/ \E symbol \in {"A", "B"} : closeRecommendation(symbol)

SpecAll == InitAll /\ [][NextAll]_vars

----------------------------------------------------------------------------
(* TradeResults with its hook instance and the poller: the effect that starts *)
(* the monitoring runs again after every render in which activeTrades, a new  *)
(* array of every render, is not the array of the render before               *)

MaxRenders == 3

\* what the store holds when the view is mounted: one trade of "A", tracked
\* with an entry price or without
PollTrades ==
    {<<NewTrade("A", CallRec, entryPrice, 0)>> : entryPrice \in {Undef, Some(2)}}

PollResponses == QuoteResponses \cup {Some(Quote(FALSE, FALSE, Some(105)))}

\* the symbols the effect starts a poller for
MonitoredSymbols(ts) ==
    LET confirmed == SelectSeq(getActiveTrades(ts), IsConfirmed)
    IN  [i \in DOMAIN confirmed |-> confirmed[i].symbol]

\* a render with a new activeTrades array: the cleanup of the effect of the
\* render before, then the effect
EffectRuns(m, ts, t) == StartAll(stopAllMonitoring(m), MonitoredSymbols(ts), t)

\* the view has just been mounted: useState([]), the first effect found no trade
InitPoll ==
    /\ storage \in {Some(JSONstringify(ts)) : ts \in PollTrades}
    /\ trades = <<>>
    /\ loaded = FALSE
    /\ now = 0
    /\ last = "mount"
    /\ view = "results"
    /\ recs = {}
    /\ conts = {}
    /\ calls = 0
    /\ returned = Undef
    /\ mtf = MtfIdle
    /\ tz = 0
    /\ args = Undef
    /\ AnalysisIdle
    /\ monitor = MonitorIdle
    /\ results = "mounted"

\* the load effect of the hook sets the trades; the view renders again and its
\* effect starts the monitoring
ResultsLoad ==
    /\ ~loaded
    /\ loaded' = TRUE
    /\ trades' = LoadTrades(Val(storage))
    /\ last' = "load"
    /\ monitor' = EffectRuns(monitor, trades', now)
    /\ UNCHANGED <<storage, now, calls, returned, appVars, mtf, tz, args, recommendations,
                   flow, config, results, batch>>

\* the trade whose id the callback of a closure passes to updateTradePrice
TradeOf(ts, symbol) == Val(getTradeBySymbol(ts, symbol)).id

\* a getQuickPrice call of closure id settles.  With a price the callback calls
\* updateTradePrice, and when saveTrades has set the trades the view renders
\* again and its effect runs again.
PriceArrives(id, response, setItemOk) ==
    LET outcome == getQuickPrice(response)
        priced == outcome.ok /\ IsDef(outcome.value)
        settled == [monitor EXCEPT
                       !.closures[id].inflight = @ - 1,
                       !.settled = Some(Settled(priced, Invokes(outcome)))]
    IN  /\ loaded
        /\ id \in DOMAIN monitor.closures
        /\ monitor.closures[id].inflight > 0
        /\ Len(monitor.closures) < MaxRenders
        /\ IF Invokes(outcome)
           THEN /\ saveTrades(TRUE,
                              updateTradePrice(trades,
                                               TradeOf(trades, monitor.closures[id].symbol),
                                               Val(outcome.value).currentPrice, Undef),
                              setItemOk)
                /\ last' = Call("updateTradePrice", setItemOk)
                /\ monitor' = IF setItemOk THEN EffectRuns(settled, trades', now) ELSE settled
           ELSE /\ monitor' = settled
                /\ UNCHANGED <<storage, trades, last>>
        /\ UNCHANGED <<loaded, now, calls, returned, appVars, mtf, tz, args, recommendations,
                       flow, config, results, batch>>

NextPoll ==
    \/ ResultsLoad
    \/ \E id \in DOMAIN monitor.timers : TimerFires(id)
    \/ \E id \in DOMAIN monitor.closures, response \in PollResponses, ok \in BOOLEAN :
           PriceArrives(id, response, ok)
    \/ TimePasses

SpecPoll == InitPoll /\ [][NextPoll]_vars

----------------------------------------------------------------------------
(* A hook instance mounted on what an earlier instance left at the storage   *)
(* key                                                                       *)

\* a trade as the ledger's operations leave it: tracked at time 0, then
\* perhaps priced, then perhaps closed at time 1
LedgerTrades ==
    LET tracked == {NewTrade("A", recommendation, entryPrice, 0) :
                        recommendation \in Recommendations, entryPrice \in Opt(EntryPrices)}
        priced == {UpdatedTrade(trade, price, entryPrice) :
                       trade \in tracked, price \in Prices, entryPrice \in Opt({2})}
        open == tracked \cup priced
    IN  open \cup {closeTrade(<<trade>>, trade.id, 1)[1] : trade \in open}

RECURSIVE Collections(_)
Collections(n) ==
    IF n = 0 THEN {<<>>}
    ELSE LET shorter == Collections(n - 1)
         IN  shorter \cup {Append(ts, trade) : ts \in shorter, trade \in LedgerTrades}

\* the item at the key: never written, the text of the last write, or a text
\* that is not JSON any more
Items == {"missing", "written", "garbled"}

\* JSON.parse of the text at the key
JSONparse(blob, item) ==
    IF item = "written" THEN Fulfilled(blob) ELSE Rejected("SyntaxError")

\* the earlier instance's last collection and what became of its blob
InitReload ==
    /\ args \in {Some([final |-> ts, item |-> item]) :
                     ts \in Collections(MaxTrades), item \in Items}
    /\ storage = IF Val(args).item = "missing" THEN NoBlob
                 ELSE Some(JSONstringify(Val(args).final))
    /\ trades = <<>>
    /\ loaded = FALSE
    /\ now = 0
    /\ last = "mount"
    /\ view = "hook"
    /\ recs = {}
    /\ conts = {}
    /\ calls = 0
    /\ returned = Undef
    /\ mtf = MtfIdle
    /\ tz = 0
    /\ AnalysisIdle
    /\ PollerIdle

\* the load effect: getItem, JSON.parse and the map inside try, setTrades
LoadEffectRuns ==
    LET parsed == JSONparse(Val(storage), Val(args).item)
    IN  /\ ~loaded
        /\ loaded' = TRUE
        /\ last' = "load"
        /\ trades' = IF IsDef(storage) /\ parsed.ok THEN LoadTrades(parsed.value) ELSE trades
        /\ UNCHANGED <<storage, now, calls, returned, appVars, svcVars>>

NextReload == LoadEffectRuns

SpecReload == InitReload /\ [][NextReload]_vars

----------------------------------------------------------------------------
(* Claims about the indicator engine                                         *)

\* the closes the RSI of a series of at least 15 points is computed from
Trailing(data) == SubSeq(data, Len(data) - RsiPeriod, Len(data))

NoDownMove(prices) ==
    \A i \in 1..(Len(prices) - 1) : prices[i + 1].close >= prices[i].close

\* C21: calculateRSI returns 50 for a series of fewer than 15 points; for a
\* longer one it returns a value between 0 and 100, and 100 when no close of
\* the trailing 15 is below the close before it (a flat window included).
C21_RsiRange ==
    last = "calculateRSI" =>
        LET data == Val(args)
            rsi == Val(returned)
        IN  /\ Len(data) < RsiPeriod + 1 => rsi = Whole(50)
            /\ Len(data) >= RsiPeriod + 1 =>
                /\ ~RatLess(rsi, Whole(0))
                /\ ~RatLess(Whole(100), rsi)
                /\ NoDownMove(Trailing(data)) => rsi = Whole(100)

\* a 16-point series whose first move is down and whose trailing 15 closes
\* never fall: the RSI is 100
C21_Witness ==
    /\ last = "calculateRSI"
    /\ Len(Val(args)) = RsiPeriod + 2
    /\ ~NoDownMove(Val(args))
    /\ NoDownMove(Trailing(Val(args)))
    /\ Val(returned) = Whole(100)

StrictlyRising(data) == \A i \in 1..(Len(data) - 1) : data[i + 1].close > data[i].close
StrictlyFalling(data) == \A i \in 1..(Len(data) - 1) : data[i + 1].close < data[i].close

\* the running sum follows the closes: seeded at 0, unchanged on a flat close,
\* never falling over rising closes and never rising over falling ones
ObvFollowsCloses(data, obv) ==
    /\ obv[1] = 0
    /\ \A i \in 2..Len(data) :
            i <= Len(obv) /\ data[i].close = data[i - 1].close => obv[i] = obv[i - 1]
    /\ StrictlyRising(data) => \A i \in 2..Len(obv) : obv[i] >= obv[i - 1]
    /\ StrictlyFalling(data) => \A i \in 2..Len(obv) : obv[i] <= obv[i - 1]

\* C22: calculateOBV returns an array as long as its input series that is
\* seeded at 0, stays where it is on a flat close, never falls over strictly
\* increasing closes and never rises over strictly decreasing closes.
C22_ObvSameLength ==
    last = "calculateOBV" =>
        /\ Len(Val(returned)) = Len(Val(args))
        /\ ObvFollowsCloses(Val(args), Val(returned))

\* what holds of the code: the length is that of the series except for the
\* empty series, whose OBV array is the seed alone
C22_ObvOfCode ==
    last = "calculateOBV" =>
        /\ Len(Val(returned)) = Max(Len(Val(args)), 1)
        /\ ObvFollowsCloses(Val(args), Val(returned))

Labels(line) == [i \in 1..Len(line.fields) |-> line.fields[i].label]

\* the field at index i holds its own fallback text
FallsBack(line, i) ==
    /\ line.fields[i].text.number = Undef
    /\ line.fields[i].text.words \in
            {"insufficient data", "SMA50 insufficient data", "trend insufficient data"}

\* every field falls back below its own minimum length and only there
FieldsByOwnMinimum(line, n) ==
    /\ Labels(line) = <<"Price", "RSI", "SMA50", "Trend", "MACD", "OBV", "ATR", "Volume">>
    /\ ~FallsBack(line, 1)
    /\ FallsBack(line, 2) <=> n < 15
    /\ FallsBack(line, 3) <=> n < 50
    /\ FallsBack(line, 4) <=> n < 200
    /\ FallsBack(line, 5) <=> n < 35
    /\ FallsBack(line, 6) <=> n < 2
    /\ FallsBack(line, 7) <=> n < 15
    /\ FallsBack(line, 8) <=> n < 10

SummaryCalls == {"generateTechnicalAnalysis", "generateTechnicalAnalysis_008"}

\* C23: generateTechnicalAnalysis emits, for a series of any length (0 and 1
\* included), one line whose fields stand in a fixed order, each field with
\* its own "insufficient data" text exactly below its own minimum length (RSI
\* and ATR 15, SMA50 50, trend 200, MACD 35, volume 10) whatever the other
\* fields do.
C23_EveryFieldOnEveryLine ==
    last \in SummaryCalls =>
        /\ Val(returned).note = ""
        /\ FieldsByOwnMinimum(Val(returned), Len(Val(args)))

\* what holds of the function of alphaVantageApi.ts: the fields are there from
\* two points on; below, the line is the one "Insufficient data" note
C23_FieldsFromTwoPoints ==
    last = "generateTechnicalAnalysis" =>
        IF Len(Val(args)) >= 2
        THEN Val(returned).note = "" /\ FieldsByOwnMinimum(Val(returned), Len(Val(args)))
        ELSE Val(returned).note # "" /\ Val(returned).fields = <<>>

\* what holds of the function of part_008: no field below twenty points, and
\* from twenty points on six fields none of which ever falls back on its own
C23_OneGuardInPart008 ==
    last = "generateTechnicalAnalysis_008" =>
        IF Len(Val(args)) >= 20
        THEN /\ Labels(Val(returned)) = <<"Price", "RSI", "SMA20", "Trend", "Volume", "Momentum">>
             /\ \A i \in 1..6 : ~FallsBack(Val(returned), i)
        ELSE Val(returned).note # "" /\ Val(returned).fields = <<>>

----------------------------------------------------------------------------
(* Claims about ingestion and derivation                                     *)

IngestCalls == {"fetchDailyData", "fetchWeeklyData", "fetchMonthlyData"}

\* the series a fulfilled fetcher hands back
SeriesOfOutcome(call, outcome) ==
    IF call = "fetchDailyData" THEN outcome.value.data ELSE outcome.value

AscendingByDate(series) ==
    \A i \in 1..(Len(series) - 1) :
        DaysFromCivil(series[i].date) < DaysFromCivil(series[i + 1].date)

\* C24: a fetcher of the primary provider either returns a series in ascending
\* order of date or raises an error; on a payload with an error message or a
\* rate-limit note it raises, returning no series (so no empty one), and the
\* error is the rate-limit one exactly when the note brought it about.
C24_ErrorOrAscendingSeries ==
    last \in IngestCalls =>
        LET outcome == Val(returned)
        IN  /\ outcome.ok => AscendingByDate(SeriesOfOutcome(last, outcome))
            /\ IsDef(args) /\ (Val(args).errorMessage \/ Val(args).note) =>
                    /\ ~outcome.ok
                    /\ Val(args).errorMessage => outcome.error = "Alpha Vantage API Error"
                    /\ ~Val(args).errorMessage => outcome.error = "API rate limit exceeded"
            /\ ~outcome.ok /\ outcome.error = "API rate limit exceeded" => Val(args).note

\* a payload with a rate-limit note and an empty time series is turned down
\* as rate-limited
C24_Witness ==
    /\ last = "fetchDailyData"
    /\ IsDef(args)
    /\ Val(args).note
    /\ Val(args).timeSeries = Some({})
    /\ Val(returned) = Rejected("API rate limit exceeded")

\* three entries come back in ascending order
C24_SortedWitness ==
    /\ last = "fetchWeeklyData"
    /\ Val(returned).ok
    /\ Len(Val(returned).value) = 3

\* the indices at which a bucket ends: where the day of the week, counted in
\* the zone, is Friday, and the last index
WeekEnds(dailyData, zone) ==
    {i \in 1..Len(dailyData) : getDay(dailyData[i].date, zone) = 5 \/ i = Len(dailyData)}

\* the last index of every run of points of one calendar month of the zone
MonthEnds(dailyData, zone) ==
    {i \in 1..Len(dailyData) :
        \/ i = Len(dailyData)
        \/ MonthKey(dailyData[i].date, zone) # MonthKey(dailyData[i + 1].date, zone)}

\* the bucket that ends at index e holds the points after the end before it
BucketAt(dailyData, ends, e) ==
    LET before == {f \in ends : f < e}
        start == IF before = {} THEN 1 ELSE 1 + (CHOOSE f \in before : \A g \in before : g <= f)
    IN  SubSeq(dailyData, start, e)

\* the point of a bucket: open of the first, highest high, lowest low, close
\* and date of the last point
Aggregates(point, bucket) ==
    /\ point.date = bucket[Len(bucket)].date
    /\ point.open = bucket[1].open
    /\ point.high = MaxHigh(bucket)
    /\ point.low = MinLow(bucket)
    /\ point.close = bucket[Len(bucket)].close

\* the derived series has one point for each end, in the order of the ends
BucketsEndAt(dailyData, derived, ends) ==
    /\ Len(derived) = Cardinality(ends)
    /\ \A e \in ends :
            Aggregates(derived[Cardinality({f \in ends : f <= e})], BucketAt(dailyData, ends, e))

\* C25: generateWeeklyFromDaily cuts the daily series after every Friday point
\* and after the last point, generateMonthlyFromDaily after the last point of
\* every run of points of one calendar month; every daily point is in exactly
\* one bucket, the buckets keep the daily order, and each bucket's point has the
\* open of its first point, the highest high, the lowest low and the close and
\* the date of its last point.  Days and months are those of the dates.
C25_BucketsByCalendar ==
    /\ last = "generateWeeklyFromDaily" =>
            BucketsEndAt(Val(args), Val(returned), WeekEnds(Val(args), 0))
    /\ last = "generateMonthlyFromDaily" =>
            BucketsEndAt(Val(args), Val(returned), MonthEnds(Val(args), 0))

\* what holds of the code: the cuts are where getDay() and getMonth() of the
\* browser's zone put them
C25_BucketsByLocalTime ==
    /\ last = "generateWeeklyFromDaily" =>
            BucketsEndAt(Val(args), Val(returned), WeekEnds(Val(args), tz))
    /\ last = "generateMonthlyFromDaily" =>
            BucketsEndAt(Val(args), Val(returned), MonthEnds(Val(args), tz))

----------------------------------------------------------------------------
(* Claims about the batch run                                                *)

\* an analyzeSymbol call has started and has not returned
InFlight == flow.pc \notin {"idle", "done"}

IsPrefix(s, t) == Len(s) <= Len(t) /\ s = SubSeq(t, 1, Len(s))

\* C26: analyzeAllSymbols takes the symbols one after another in the order of
\* the list: no second loop runs next to a running one and an analyzeSymbol is
\* in flight only for the symbol the loop is at; every symbol but the first
\* starts after one pause of the fixed delay that followed the return of the
\* analysis before it; no pause follows the last symbol; and isAnalyzing is
\* true exactly from the click until the loop is left, whatever the outcome of
\* the single analyses.
C26_OneSymbolAtATime ==
    /\ ~batch.overlap
    /\ batch.isAnalyzing <=> batch.pc # "idle"
    /\ IsPrefix(batch.started, Val(args))
    /\ \A i \in DOMAIN batch.slept : batch.slept[i] = InterSymbolDelay(config.version)
    /\ InFlight =>
            /\ batch.pc = "analyzing"
            /\ flow.symbol = Val(args)[batch.currentSymbolIndex + 1]
    /\ batch.pc = "analyzing" =>
            /\ Len(batch.started) = batch.currentSymbolIndex + 1
            /\ Len(batch.slept) = batch.currentSymbolIndex
    /\ batch.pc = "sleeping" =>
            /\ ~InFlight
            /\ Len(batch.started) = batch.currentSymbolIndex + 1
            /\ Len(batch.slept) = batch.currentSymbolIndex + 1
            /\ batch.currentSymbolIndex + 1 < Len(Val(args))
    /\ batch.pc = "idle" /\ batch.runs > 0 =>
            /\ batch.started = Val(args)
            /\ Len(batch.slept) = Max(Len(Val(args)) - 1, 0)

\* a run over two symbols is over: the first analysis failed, one pause lies
\* between the two, and isAnalyzing is false again
C26_Witness ==
    /\ batch.pc = "idle"
    /\ batch.runs > 0
    /\ ~batch.isAnalyzing
    /\ batch.started = <<"A", "B">>
    /\ Len(batch.slept) = 1
    /\ flow.pc = "done"
    /\ \E i \in DOMAIN recommendations :
            recommendations[i] = Entry("A", ErrorText, FALSE, Undef, Undef)

----------------------------------------------------------------------------
(* Claims about the frame of the ledger's mutations                          *)

TradeKeys ==
    {"id", "symbol", "recommendation", "confirmedAt", "entryPrice", "currentPrice",
     "status", "pnl", "pnlPercentage", "closedAt"}

PriceKeys == {"currentPrice", "entryPrice", "status", "pnl", "pnlPercentage"}
CloseKeys == {"status", "closedAt"}

\* from old to new no trade is added or removed, a trade with another id is
\* left as it is, and a trade with the id changes in the keys given at most
Touches(tradeId, keys, old, new) ==
    /\ Len(new) = Len(old)
    /\ \A i \in DOMAIN old :
            IF old[i].id = tradeId
            THEN \A k \in TradeKeys \ keys : new[i][k] = old[i][k]
            ELSE new[i] = old[i]

\* C27: a call of updateTradePrice(id, ...) or closeTrade(id) leaves the trades
\* of other ids as they are, in memory and in storage, adds and removes none,
\* and changes of the trade named at most currentPrice, entryPrice, status, pnl
\* and pnlPercentage (updateTradePrice) or status and closedAt (closeTrade);
\* with an id of no trade the collection stays as it is.
C27_TouchesOnlyNamed ==
    [][/\ \A c \in conts, p \in Prices, ok \in BOOLEAN :
              Resume(c, Some(p), ok) =>
                  /\ Touches(Head(c.queue), PriceKeys, StoredTrades, StoredTrades')
                  /\ (loaded /\ loaded') => Touches(Head(c.queue), PriceKeys, trades, trades')
       /\ \A id \in Ids(trades), ok \in BOOLEAN :
              HandleCloseTrade(id, ok) =>
                  /\ Touches(id, CloseKeys, StoredTrades, StoredTrades')
                  /\ Touches(id, CloseKeys, trades, trades')]_vars

\* what holds of the two functions: the frame is kept with respect to the
\* collection of the render the function was created in
C27_TouchesOnlyNamedOfItsRender ==
    [][/\ \A id \in CallIds(trades), p \in Prices, e \in Opt(EntryPrices), ok \in BOOLEAN :
              UpdateTradePriceCall(id, p, e, ok) =>
                  /\ Touches(id, PriceKeys, trades, trades')
                  /\ ok => Touches(id, PriceKeys, trades, StoredTrades')
       /\ \A id \in CallIds(trades), ok \in BOOLEAN :
              CloseTradeCall(id, ok) =>
                  /\ Touches(id, CloseKeys, trades, trades')
                  /\ ok => Touches(id, CloseKeys, trades, StoredTrades')]_vars

----------------------------------------------------------------------------
(* Further claims about the price poller                                     *)

\* the timers of the host are those of the intervals map, one for a symbol,
\* and each symbol with a timer has the callback of the same start registered
TimersAreTheMap(m) ==
    /\ DOMAIN m.timers = Values(m.intervals)
    /\ \A symbol \in DOMAIN m.intervals : m.closures[m.intervals[symbol]].symbol = symbol
    /\ \A id, other \in DOMAIN m.timers :
            m.closures[id].symbol = m.closures[other].symbol => id = other
    /\ DOMAIN m.intervals \subseteq DOMAIN m.callbacks
    /\ \A symbol \in DOMAIN m.intervals : m.callbacks[symbol] = m.intervals[symbol]

\* C28: after any sequence of startMonitoring, stopMonitoring and
\* stopAllMonitoring calls the live interval timers are exactly those of the
\* intervals map, at most one for a symbol, and every symbol with a timer has
\* a callback registered; a startMonitoring for a symbol already monitored
\* cancels the timer of before and registers the new callback.
C28_TimersAreTheMap ==
    /\ [](TimersAreTheMap(monitor))
    /\ [][\A symbol \in MonitorSymbols, intervalMs \in Intervals :
              StartMonitoring(symbol, intervalMs) /\ symbol \in DOMAIN monitor.intervals =>
                  /\ monitor.intervals[symbol] \notin DOMAIN monitor'.timers
                  /\ monitor'.callbacks[symbol] # monitor.callbacks[symbol]
                  /\ monitor'.callbacks[symbol] = Len(monitor'.closures)]_vars

\* a symbol was started twice: only the timer of the second start is live
C28_Witness ==
    /\ Len(monitor.closures) = 2
    /\ monitor.closures[1].symbol = monitor.closures[2].symbol
    /\ DOMAIN monitor.timers = {2}
    /\ monitor.callbacks = (monitor.closures[2].symbol :> 2)

\* the getQuickPrice calls begun in this step
FetchesBegun ==
    {id \in DOMAIN monitor'.closures :
        \/ id \notin DOMAIN monitor.closures
        \/ monitor'.closures[id].inflight > monitor.closures[id].inflight}

\* C29: while TradeResults is mounted with a confirmed active trade, a fetch of
\* the trade's symbol begins only when the monitoring starts and when an
\* interval of it has elapsed: the monitoring is started once, and a price that
\* arrives, is passed to updateTradePrice and renders the view again begins no
\* fetch and leaves the timers as they are.
C29_FetchesOnlyOnInterval ==
    /\ [](results = "mounted" => Len(monitor.closures) <= 1)
    /\ [][/\ \A id \in FetchesBegun :
                 \/ ~loaded
                 \/ id \in DOMAIN monitor.timers /\ monitor.timers[id] = now
          /\ \A id \in DOMAIN monitor.closures, response \in PollResponses, ok \in BOOLEAN :
                 PriceArrives(id, response, ok) =>
                     /\ FetchesBegun = {}
                     /\ monitor'.timers = monitor.timers]_vars

\* what holds of the code: the start and the elapsed intervals begin a fetch,
\* and so does every price that is written to the ledger, which stops the
\* monitoring and starts it again with a fetch at once
C29_EveryPriceRestarts ==
    [][/\ \A id \in DOMAIN monitor.closures, response \in PollResponses, ok \in BOOLEAN :
              PriceArrives(id, response, ok) =>
                  IF Invokes(getQuickPrice(response)) /\ ok
                  THEN /\ FetchesBegun = {Len(monitor.closures) + 1}
                       /\ DOMAIN monitor'.timers = {Len(monitor.closures) + 1}
                       /\ monitor'.timers[Len(monitor.closures) + 1] = now + DefaultIntervalMs
                  ELSE FetchesBegun = {} /\ monitor'.timers = monitor.timers
       /\ \A id \in DOMAIN monitor.timers : TimerFires(id) => FetchesBegun = {id}
       /\ TimePasses => FetchesBegun = {}]_vars

----------------------------------------------------------------------------
(* Claims about persistence                                                  *)

\* C30: an instance mounted on the blob of the last write of an earlier
\* instance loads that instance's last collection: the same trades in the same
\* order with every field equal, confirmedAt and closedAt as timestamps again
\* and a closedAt that was absent absent; mounted on no blob or on a text that
\* does not parse it starts empty.
C30_ReloadRestores ==
    last = "load" =>
        IF Val(args).item = "written" THEN trades = Val(args).final ELSE trades = <<>>

\* two trades are loaded again, the first closed with its closedAt, the second
\* priced and open with none
C30_Witness ==
    /\ last = "load"
    /\ Val(args).item = "written"
    /\ Len(trades) = 2
    /\ trades = Val(args).final
    /\ trades[1].closedAt = Some(1)
    /\ trades[2].closedAt = Undef
    /\ IsDef(trades[2].pnlPercentage)

\* a text that does not parse leaves the instance empty
C30_GarbledWitness ==
    /\ last = "load"
    /\ Val(args).item = "garbled"
    /\ Val(args).final # <<>>
    /\ trades = <<>>

====
